---- MODULE Spec2Model ----
(***************************************************************************)
(* A model of the request-orchestration engine of vscode-copilot-as-service *)
(* (an OpenAI-compatible HTTP gateway in front of the VS Code language      *)
(* model API):                                                              *)
(*   - prepareChatMessages (handlers/messageHandler.ts), the assembly of    *)
(*     the outgoing conversation, checked under SpecMsg;                    *)
(*   - handleChatCompletions (routes.ts) with handleStreamingResponse,      *)
(*     handleNonStreamingResponse, processToolCalls and invokeToolSafely    *)
(*     (handlers/responseHandler.ts), one request as a state machine,       *)
(*     checked under Spec.                                                  *)
(* A JavaScript string is a sequence of tokens; string concatenation is     *)
(* sequence concatenation. "<fence>" is the token of a code fence and       *)
(* "<quote>" the token of a double quote.                                   *)
(***************************************************************************)
EXTENDS Integers, Sequences, FiniteSets, TLC

VARIABLES
    \* ---- prepareChatMessages (SpecMsg) ----
    mpc,            \* "ready" before the call, "done" after it returned
    options,        \* the MessagePreparationOptions of the call
    chatMessages,   \* the list the call returned
    \* ---- one chat-completion request (Spec) ----
    pc,             \* position of the handler in handleChatCompletions
    requestData,    \* the parsed request body
    families,       \* the model families vscode.lm offers for vendor copilot
    modelAvailable, \* whether selectChatModels finds a model
    stream,         \* the handler's local `stream`
    warnings,       \* what console.warn has written
    fileOperationResult, \* the handler's local `fileOperationResult`
    prepared,       \* chatMessages of the request, as sent to the model
    requestsSent,   \* the model.sendRequest calls made, in order
    chatResponse,   \* the part stream of the first response
    followUpResponse, \* the part stream of the follow-up response
    fragmentsTaken, \* handleStreamingResponse: fragments taken from chatResponse.text
    textParts,      \* handleNonStreamingResponse: collected text parts
    toolCallParts,  \* handleNonStreamingResponse: collected tool-call parts
    assistantToolCallMessage, \* processToolCalls: the synthetic assistant turn
    toolResultParts, \* processToolCalls: the results pushed so far
    inFlight,       \* indexes of tool calls whose invocation has started and not completed
    invocations,    \* the tool invocations started, in start order (call indexes)
    toolOutcomes,   \* what vscode.lm.invokeTool did, per completed invocation, in completion order
    userToolResultMessage, \* processToolCalls: the synthetic user turn
    fullText,       \* the text handleNonStreamingResponse returned
    thrown,         \* the origin of the exception that reached the handler's catch
    res,            \* the HTTP response
    \* ---- prepareToolsForRequest and mapToolChoice (SpecTools) ----
    tpc,            \* "ready" before the two calls, "done" after them
    tTools,         \* the `tools` list given to prepareToolsForRequest
    tToolChoice,    \* the `tool_choice` given to mapToolChoice
    tToolsForRequest, \* what prepareToolsForRequest returned
    tToolMode,      \* what mapToolChoice returned
    tWarned,        \* the names prepareToolsForRequest warned about, in order
    \* ---- generateNextActions (SpecSuggest) ----
    gpc,            \* "ready" before the call, "done" after it returned
    gRequest,       \* the `request` of the call
    gResponse,      \* the `response` text of the call, as words
    suggestions,    \* the local `suggestions`: the actions pushed, in push order
    gActions,       \* the list the call returned
    gBody,          \* the workflow keys of the chat.completion written for the call
    \* ---- the server of the extension (SpecServer) ----
    server,         \* the module-level `server`: 0 (undefined) or the held instance
    instances,      \* the http.Server instances created, in creation order
    statusBar,      \* what updateStatusBar last showed
    notices,        \* the notifications shown, in order
    lastCommand,    \* the command or callback that ran last
    commands,       \* the number of commands run
    \* ---- two chat-completion requests in flight (SpecHandlers) ----
    hRequests,      \* the parsed body of each request
    hAnswers,       \* what the model and the tools answer to each request
    handlers,       \* the locals of each call of handleChatCompletions
    hResults,       \* the toolResultParts arrays of the calls of processToolCalls
    \* ---- the request listener and its routes (SpecRoutes) ----
    rpc,            \* "received" before the listener runs, "done" after it answered
    rRequest,       \* the HTTP request
    rRes,           \* the HTTP response
    \* ---- the direct tool-invoke endpoint (SpecInvoke) ----
    ipc,            \* "received" before handleToolInvoke runs, "done" after it answered
    iRequest,       \* the parsed body of the tool-invoke request
    iOutcome,       \* what vscode.lm.invokeTool does when it is called
    iInvoked,       \* the tools invoked through vscode.lm.invokeTool, in order
    iRes,           \* the HTTP response
    \* ---- searchWorkspaceCode ----
    spc,            \* the position of the searchWorkspaceCode call
    sWorkspace,     \* the workspace the call searches
    sArgs,          \* the arguments of the call
    sResult,        \* the value the call resolves to
    \* ---- editFile ----
    eInitial,       \* the content of the file before any edit
    eFile,          \* the content of the file on disk
    editors,        \* the calls of editFile on the file: position, locals and result of each
    \* ---- RouteRegistry (SpecRegistry) ----
    kpc,            \* position of the dispatch call
    routes,         \* RouteRegistry.routes: the handler of each key
    registered,     \* the definitions registered so far, in order
    kRequest,       \* the request dispatch is called with
    kSeen,          \* the number of definitions registered when dispatch was called
    kCalls,         \* the handlers dispatch invoked, in order
    kRes,           \* the response: the handlers that wrote to it
    kResult         \* what dispatch resolved to

msgVars == <<mpc, options, chatMessages>>
toolVars == <<tpc, tTools, tToolChoice, tToolsForRequest, tToolMode, tWarned>>
suggestVars == <<gpc, gRequest, gResponse, suggestions, gActions, gBody>>
serverVars == <<server, instances, statusBar, notices, lastCommand, commands>>
handlerVars == <<hRequests, hAnswers, handlers, hResults>>
routeVars == <<rpc, rRequest, rRes>>
invokeVars == <<ipc, iRequest, iOutcome, iInvoked, iRes>>
searchVars == <<spc, sWorkspace, sArgs, sResult>>
editVars == <<eInitial, eFile, editors>>
registryVars == <<kpc, routes, registered, kRequest, kSeen, kCalls, kRes, kResult>>
chatVars == <<pc, requestData, families, modelAvailable, stream, warnings, fileOperationResult, prepared,
              requestsSent, chatResponse, followUpResponse, fragmentsTaken, textParts,
              toolCallParts, assistantToolCallMessage, toolResultParts,
              inFlight, invocations, toolOutcomes, userToolResultMessage, fullText, thrown, res>>
vars == <<mpc, options, chatMessages, pc, requestData, families, modelAvailable, stream,
          warnings, fileOperationResult, prepared, requestsSent, chatResponse, followUpResponse,
          fragmentsTaken,
          textParts, toolCallParts, assistantToolCallMessage, toolResultParts,
          inFlight, invocations, toolOutcomes, userToolResultMessage, fullText, thrown, res,
          tpc, tTools, tToolChoice, tToolsForRequest, tToolMode, tWarned,
          gpc, gRequest, gResponse, suggestions, gActions, gBody,
          server, instances, statusBar, notices, lastCommand, commands,
          hRequests, hAnswers, handlers, hResults, rpc, rRequest, rRes,
          ipc, iRequest, iOutcome, iInvoked, iRes,
          spc, sWorkspace, sArgs, sResult,
          eInitial, eFile, editors,
          kpc, routes, registered, kRequest, kSeen, kCalls, kRes, kResult>>

----------------------------------------------------------------------------
(* Bounds of the model *)

\* longest request conversation explored by SpecMsg
MaxMsgs == 3
\* longest part stream of the first model response
MaxParts == 3
\* longest part stream of the follow-up model response
MaxFollowUpParts == 2
\* longest tools list explored by SpecTools
MaxTools == 2
\* longest response text, in words, explored by SpecSuggest
MaxWords == 2
\* the number of start, stop and restart commands explored by SpecServer
MaxCommands == 3
\* the number of chat-completion requests in flight explored by SpecHandlers
MaxHandlers == 2
\* longest content list of a tool result explored by SpecInvoke
MaxContent == 3
\* longest list of requested file paths explored by SpecMsg
MaxFiles == 3
\* the most files of an explored workspace
MaxWorkspaceFiles == 3
\* longest replacement list of an explored call of editFile
MaxReplacements == 2

----------------------------------------------------------------------------
(* Generic helpers *)

\* all sequences over S of length at most n
BSeq(S, n) == UNION {[1..k -> S] : k \in 0..n}

\* an optional value: JavaScript's undefined, or a value
None == [some |-> FALSE, val |-> <<>>]
Some(v) == [some |-> TRUE, val |-> v]

\* JavaScript truthiness of an optional string: undefined and "" are falsy
Truthy(o) == o.some /\ o.val # <<>>

\* Array.prototype.join of an array of strings with separator sep
RECURSIVE Join(_, _)
Join(strs, sep) ==
    IF strs = <<>> THEN <<>>
    ELSE IF Len(strs) = 1 THEN strs[1]
    ELSE strs[1] \o sep \o Join(Tail(strs), sep)

\* String.prototype.toLowerCase, token by token: the tokens explored that
\* hold an upper-case letter
toLowerCase(word) ==
    CASE word = "Find" -> "find"
      [] word = "Q" -> "q"
      [] OTHER -> word

\* String.prototype.includes: `part` is a run of consecutive tokens of `text`
Includes(text, part) ==
    \E i \in 0..(Len(text) - Len(part)) : SubSeq(text, i + 1, i + Len(part)) = part

\* String.prototype.trim: the text without blank tokens at its ends
RECURSIVE Trim(_)
Trim(text) ==
    IF text # <<>> /\ text[1] = " " THEN Trim(Tail(text))
    ELSE IF text # <<>> /\ text[Len(text)] = " " THEN Trim(SubSeq(text, 1, Len(text) - 1))
    ELSE text

----------------------------------------------------------------------------
(* prepareChatMessages: handlers/messageHandler.ts *)

\* the role strings a request message is explored with; `role` is typed
\* string, "tool" stands for any role that is none of the three named ones
Roles == {"system", "user", "assistant", "tool"}

\* the content of the i-th message of a request: one token per position, so
\* that order and identity of every message can be told apart
ContentAt(i) == <<"m" \o ToString(i)>>

\* the request conversations explored: every role sequence up to MaxMsgs
RequestMessages ==
    {[i \in 1..Len(rs) |-> [role |-> rs[i], content |-> ContentAt(i)]] :
        rs \in BSeq(Roles, MaxMsgs)}

\* response_format values explored: absent, json_object, json_schema with and
\* without a schema, and a type the code does not know
ResponseFormats ==
    {None,
     Some([type |-> "json_object", json_schema |-> None]),
     Some([type |-> "json_schema", json_schema |-> Some(<<"{schema}">>)]),
     Some([type |-> "json_schema", json_schema |-> None]),
     Some([type |-> "text", json_schema |-> None])}

\* fileReads values explored: absent, empty, and two paths (f2 is unreadable)
FileReadsValues == {None, Some(<<>>), Some(<<"f2", "f1">>)}

\* codeSearch values explored: absent, an empty query, a query
CodeSearchValues ==
    {None, Some([query |-> <<>>, filePattern |-> <<>>]),
     Some([query |-> <<"q">>, filePattern |-> <<>>]),
     Some([query |-> <<"q">>, filePattern |-> <<"*.ts">>])}

\* the paths whose vscode.workspace.fs.readFile succeeds
ReadableFiles == {"f1", "f3"}

\* the paths a request asks for
RequestedFiles == {"f1", "f2", "f3"}

\* vscode.LanguageModelChatMessage.User / .Assistant; `from` names the
\* statement of prepareChatMessages that pushed the message
User(content, from) == [role |-> "user", content |-> content, from |-> from]
Assistant(content, from) == [role |-> "assistant", content |-> content, from |-> from]

\* getWorkspaceContext (the text after the heading is left out)
getWorkspaceContext(includeContext, folders) ==
    IF ~includeContext THEN None
    ELSE IF ~folders THEN None
    ELSE Some(<<"# Workspace Context", "\n", "Working in workspace: ", "ws">>)

\* one section of readMultipleFiles: the file fenced under its path, or the
\* inline error note when the read throws
FileSection(filePath) ==
    IF filePath \in ReadableFiles
    THEN <<"## ", filePath, "\n", "<fence>", "\n", "content of ", filePath, "\n",
           "<fence>", "\n", "">>
    ELSE <<"## ", filePath, "\n", "Error reading file: ", "ENOENT", "\n", "">>

\* a variant of readMultipleFiles in which a failed read ends the function
\* without a result
readMultipleFilesOrNothing(filePaths, folders) ==
    IF filePaths = <<>> THEN None
    ELSE IF ~folders THEN None
    ELSE IF \E i \in 1..Len(filePaths) : filePaths[i] \notin ReadableFiles THEN None
    ELSE Some(Join(<<<<"# Requested Files">>, <<"">>>>
                   \o [i \in 1..Len(filePaths) |-> FileSection(filePaths[i])],
                   <<"\n">>))

\* readMultipleFiles
readMultipleFiles(filePaths, folders) ==
    IF filePaths = <<>> THEN None
    ELSE IF ~folders THEN None
    ELSE Some(Join(<<<<"# Requested Files">>, <<"">>>>
                   \o [i \in 1..Len(filePaths) |-> FileSection(filePaths[i])],
                   <<"\n">>))

\* the default of the maxResults parameter of searchWorkspaceCode
DefaultMaxResults == 20

\* the number of match lines searchWorkspaceCode lists per file
MaxMatchesPerFile == 10

\* a file of the workspace as vscode.workspace.findFiles and fs.readFile
\* show it: its relative path, whether it can be read, and its lines
WorkspaceFile(path, readable, lines) == [path |-> path, readable |-> readable, lines |-> lines]

\* a workspace as findFiles shows it: the files it returns, or its rejection
Workspace(files, rejects) == [files |-> files, rejects |-> rejects]

\* a workspace without files
NoFiles == Workspace(<<>>, FALSE)

\* lines.forEach: the matches among the first n lines of a file, each with
\* its line number and its trimmed text
RECURSIVE MatchesOf(_, _, _)
MatchesOf(lines, queryLower, n) ==
    IF n = 0 THEN <<>>
    ELSE MatchesOf(lines, queryLower, n - 1)
         \o (IF Includes([i \in 1..Len(lines[n]) |-> toLowerCase(lines[n][i])], queryLower)
             THEN <<[lineNum |-> n, line |-> Trim(lines[n])]>>
             ELSE <<>>)

\* a variant of LimitedMatches that lists every match
UnlimitedMatches(matches) == matches

\* matches.slice(0, 10)
LimitedMatches(matches) ==
    SubSeq(matches, 1, IF Len(matches) < MaxMatchesPerFile THEN Len(matches)
                       ELSE MaxMatchesPerFile)

\* the lines pushed for a file with matches
MatchSection(file, matches) ==
    <<<<"## ", file.path>>,
      <<"Found ", ToString(Len(matches)), " match(es):">>,
      <<"">>>>
    \o [i \in 1..Len(LimitedMatches(matches)) |->
           <<"Line ", ToString(LimitedMatches(matches)[i].lineNum), ": ">>
           \o LimitedMatches(matches)[i].line]
    \o (IF Len(matches) > MaxMatchesPerFile
        THEN <<<<"... and ", ToString(Len(matches) - MaxMatchesPerFile), " more match(es)">>>>
        ELSE <<>>)
    \o <<<<"">>>>

\* the loop over the files found: the lines pushed and the number of files
\* with matches, given the count before the loop reaches `files`
RECURSIVE SearchFiles(_, _, _, _)
SearchFiles(files, queryLower, maxResults, filesWithMatches) ==
    IF files = <<>> \/ filesWithMatches >= maxResults
    THEN [parts |-> <<>>, filesWithMatches |-> filesWithMatches]
    ELSE LET file == Head(files)
             matches == IF file.readable
                        THEN MatchesOf(file.lines, queryLower, Len(file.lines))
                        ELSE <<>>
             listed == Len(matches) > 0
             rest == SearchFiles(Tail(files), queryLower, maxResults,
                                 IF listed THEN filesWithMatches + 1 ELSE filesWithMatches)
         IN  [parts |-> (IF listed THEN MatchSection(file, matches) ELSE <<>>) \o rest.parts,
              filesWithMatches |-> rest.filesWithMatches]

\* searchWorkspaceCode over the workspace findFiles shows; an absent
\* filePattern is the empty text
searchWorkspaceCode(workspace, query, filePattern, maxResults) ==
    IF query = <<>> THEN None
    ELSE IF workspace.rejects
    THEN Some(<<"Error searching workspace: ", "findFiles failed">>)
    ELSE LET searched == SearchFiles(workspace.files, [i \in 1..Len(query) |-> toLowerCase(query[i])],
                                     maxResults, 0)
         IN  Some(Join(<<<<"# Code Search Results">>,
                         <<"Query: ", "<quote>">> \o query \o <<"<quote>">>>>
                       \o (IF filePattern # <<>>
                           THEN <<<<"File Pattern: ">> \o filePattern>> ELSE <<>>)
                       \o <<<<"">>>>
                       \o searched.parts
                       \o (IF searched.filesWithMatches = 0
                           THEN <<<<"No matches found.">>>> ELSE <<>>),
                       <<"\n">>))

\* a variant of formatResponseFormatInstruction that does not test json_schema
formatWithoutSchemaTest(responseFormat) ==
    IF responseFormat.type = "json_object"
    THEN Some(<<"IMPORTANT: You must respond with a valid JSON object. Do not include any text outside the JSON structure.">>)
    ELSE IF responseFormat.type = "json_schema"
    THEN Some(<<"IMPORTANT: You must respond with a valid JSON object that conforms to the following schema:", "\n", "<fence>", "json", "\n">>
              \o responseFormat.json_schema.val
              \o <<"\n", "<fence>", "\n", "Do not include any text outside the JSON structure.">>)
    ELSE None

\* formatResponseFormatInstruction; null is None
formatResponseFormatInstruction(responseFormat) ==
    IF responseFormat.type = "json_object"
    THEN Some(<<"IMPORTANT: You must respond with a valid JSON object. Do not include any text outside the JSON structure.">>)
    ELSE IF responseFormat.type = "json_schema" /\ Truthy(responseFormat.json_schema)
    THEN Some(<<"IMPORTANT: You must respond with a valid JSON object that conforms to the following schema:", "\n", "<fence>", "json", "\n">>
              \o responseFormat.json_schema.val
              \o <<"\n", "<fence>", "\n", "Do not include any text outside the JSON structure.">>)
    ELSE None

\* options.messages.filter(msg => msg.role === 'system')
systemMessagesOf(messages) == SelectSeq(messages, LAMBDA m : m.role = "system")

\* options.messages.filter(msg => msg.role !== 'system')
nonSystemMessagesOf(messages) == SelectSeq(messages, LAMBDA m : m.role # "system")

\* a variant of SystemPart that pushes one message per system entry
SystemPartPerEntry(messages) ==
    LET systemMessages == systemMessagesOf(messages)
    IN  [i \in 1..Len(systemMessages) |->
            User(<<"System Instructions:", "\n">> \o systemMessages[i].content, "system")]

\* the combined system message, pushed if any system message exists
SystemPart(messages) ==
    LET systemMessages == systemMessagesOf(messages)
        systemContent ==
            Join([i \in 1..Len(systemMessages) |-> systemMessages[i].content],
                 <<"\n", "\n">>)
    IN  IF Len(systemMessages) > 0
        THEN <<User(<<"System Instructions:", "\n">> \o systemContent, "system")>>
        ELSE <<>>

\* the response format instruction
FormatPart(responseFormat) ==
    IF responseFormat.some
    THEN LET formatInstruction == formatResponseFormatInstruction(responseFormat.val)
         IN  IF Truthy(formatInstruction)
             THEN <<User(formatInstruction.val, "format")>> ELSE <<>>
    ELSE <<>>

\* the workspace context
WorkspacePart(includeWorkspaceContext, folders) ==
    IF includeWorkspaceContext
    THEN LET workspaceInfo == getWorkspaceContext(includeWorkspaceContext, folders)
         IN  IF Truthy(workspaceInfo)
             THEN <<User(workspaceInfo.val, "workspace")>> ELSE <<>>
    ELSE <<>>

\* the requested files
FilesPart(fileReads, folders) ==
    IF fileReads.some /\ Len(fileReads.val) > 0
    THEN LET filesContent == readMultipleFiles(fileReads.val, folders)
         IN  IF Truthy(filesContent)
             THEN <<User(filesContent.val, "files")>> ELSE <<>>
    ELSE <<>>

\* the code search results
SearchPart(codeSearch) ==
    IF codeSearch.some
    THEN LET searchResults == searchWorkspaceCode(NoFiles, codeSearch.val.query,
                                                codeSearch.val.filePattern, DefaultMaxResults)
         IN  IF Truthy(searchResults)
             THEN <<User(searchResults.val, "search")>> ELSE <<>>
    ELSE <<>>

\* the loop over nonSystemMessages: a user or an assistant message is
\* converted, a message of any other role is skipped
RECURSIVE ConversationPart(_)
ConversationPart(nonSystemMessages) ==
    IF nonSystemMessages = <<>> THEN <<>>
    ELSE LET msg == Head(nonSystemMessages)
             rest == ConversationPart(Tail(nonSystemMessages))
         IN  IF msg.role = "user" THEN <<User(msg.content, "conversation")>> \o rest
             ELSE IF msg.role = "assistant"
                  THEN <<Assistant(msg.content, "conversation")>> \o rest
             ELSE rest

\* a variant of prepareChatMessages that converts the conversation before it
\* adds the requested files and the search results
prepareConversationEarly(o) ==
    SystemPart(o.messages)
    \o FormatPart(o.responseFormat)
    \o WorkspacePart(o.includeWorkspaceContext, o.workspaceFolders)
    \o ConversationPart(nonSystemMessagesOf(o.messages))
    \o FilesPart(o.fileReads, o.workspaceFolders)
    \o SearchPart(o.codeSearch)

\* prepareChatMessages: the pushes in the order the function makes them
prepareChatMessages(o) ==
    SystemPart(o.messages)
    \o FormatPart(o.responseFormat)
    \o WorkspacePart(o.includeWorkspaceContext, o.workspaceFolders)
    \o FilesPart(o.fileReads, o.workspaceFolders)
    \o SearchPart(o.codeSearch)
    \o ConversationPart(nonSystemMessagesOf(o.messages))

----------------------------------------------------------------------------
(* The specification of prepareChatMessages: one call on any explored input *)

\* the MessagePreparationOptions explored, with the environment the call
\* reads (whether vscode.workspace.workspaceFolders is non-empty)
OptionsValues ==
    [messages : RequestMessages,
     includeWorkspaceContext : BOOLEAN,
     responseFormat : ResponseFormats,
     fileReads : FileReadsValues,
     codeSearch : CodeSearchValues,
     fileOperationResult : {None},
     workspaceFolders : BOOLEAN]

\* the options of a call that has no optional source
PlainOptions(messages) ==
    [messages |-> messages, includeWorkspaceContext |-> FALSE,
     responseFormat |-> None, fileReads |-> None, codeSearch |-> None,
     fileOperationResult |-> None,
     workspaceFolders |-> TRUE]

MsgParked ==
    /\ mpc = "parked"
    /\ options = PlainOptions(<<>>)
    /\ chatMessages = <<>>

\* the options explored for the requested files: every list of up to
\* MaxFiles paths, with one user turn and no other optional source
FileReadOptions ==
    [messages : {<<[role |-> "user", content |-> ContentAt(1)]>>},
     includeWorkspaceContext : {FALSE},
     responseFormat : {None},
     fileReads : {Some(paths) : paths \in BSeq(RequestedFiles, MaxFiles)},
     codeSearch : {None},
     fileOperationResult : {None},
     workspaceFolders : BOOLEAN]

MsgInit ==
    /\ mpc = "ready"
    /\ options \in OptionsValues \cup FileReadOptions
    /\ chatMessages = <<>>

\* the call of prepareChatMessages(options)
PrepareCall ==
    /\ mpc = "ready"
    /\ chatMessages' = prepareChatMessages(options)
    /\ mpc' = "done"
    /\ UNCHANGED options

----------------------------------------------------------------------------
(* Tools: handlers/toolHandler.ts, and the parts of a model response *)

\* vscode.lm.tools: the names the tool registry holds
RegisteredTools == {"x", "d"}

\* the description of a registered tool; the empty text when it has none
RegisteredDescription(name) == IF name = "d" THEN <<"describes d">> ELSE <<>>

\* a tool descriptor of a request: an OpenAI function tool {type: 'function',
\* function: {name, description}}, a string, or an object {name} without a
\* function; an absent description is the empty text, an absent name the
\* empty string
FunctionTool(name) == [shape |-> "function", name |-> name, description |-> <<>>]
DescribedTool(name, description) == [shape |-> "function", name |-> name, description |-> description]
NamedTool(name) == [shape |-> "string", name |-> name, description |-> <<>>]
ObjectTool(name) == [shape |-> "object", name |-> name, description |-> <<>>]

\* a variant of DescriptionOrDefault without the default
DescriptionAsGiven(description, name) == description

\* description || `Tool: ${name}`
DescriptionOrDefault(description, name) ==
    IF description # <<>> THEN description ELSE <<"Tool: ", name>>

\* the second branch of the loop is taken: the descriptor is a string, or an
\* object with a truthy name
IsNameReference(tool) ==
    tool.shape = "string" \/ (tool.shape = "object" /\ tool.name # "")

\* the loop of prepareToolsForRequest: a function tool is emitted directly, a
\* name only if the registry holds it
RECURSIVE ResolvedTools(_)
ResolvedTools(tools) ==
    IF tools = <<>> THEN <<>>
    ELSE LET tool == Head(tools)
             rest == ResolvedTools(Tail(tools))
         IN  IF tool.shape = "function"
             THEN <<[name |-> tool.name,
                     description |-> DescriptionOrDefault(tool.description, tool.name)]>> \o rest
             ELSE IF IsNameReference(tool) /\ tool.name \in RegisteredTools
                  THEN <<[name |-> tool.name,
                          description |-> DescriptionOrDefault(RegisteredDescription(tool.name),
                                                               tool.name)]>> \o rest
                  ELSE rest

\* the names console.warn reports during the loop, in order
RECURSIVE ToolWarnings(_)
ToolWarnings(tools) ==
    IF tools = <<>> THEN <<>>
    ELSE LET tool == Head(tools)
         IN  (IF tool.shape # "function" /\ IsNameReference(tool)
                 /\ tool.name \notin RegisteredTools
              THEN <<tool.name>> ELSE <<>>) \o ToolWarnings(Tail(tools))

\* a variant of prepareToolsForRequest that returns the list it built, also
\* when that list is empty
prepareToolsKeepEmpty(tools) == Some(ResolvedTools(tools))

\* prepareToolsForRequest; undefined is None
prepareToolsForRequest(tools) ==
    IF Len(tools) = 0 THEN None
    ELSE LET toolsForRequest == ResolvedTools(tools)
         IN  IF Len(toolsForRequest) > 0 THEN Some(toolsForRequest) ELSE None

\* a tool_choice of a request: a string, or an object {type, function: {name}}
StringChoice(value) == [shape |-> "string", value |-> value, type |-> "", name |-> ""]
ObjectChoice(type, name) == [shape |-> "object", value |-> "", type |-> type, name |-> name]

\* vscode.LanguageModelChatToolMode
Required == <<"Required">>
Auto == <<"Auto">>

\* JavaScript truthiness of an optional tool_choice: undefined and "" are falsy
TruthyChoice(toolChoice) ==
    toolChoice.some /\ ~(toolChoice.val.shape = "string" /\ toolChoice.val.value = "")

\* a variant of mapToolChoice that does not look at hasTools
mapToolChoiceWithoutTools(toolChoice, hasTools) ==
    IF ~TruthyChoice(toolChoice) THEN None
    ELSE IF toolChoice.val.shape = "string"
         THEN IF toolChoice.val.value = "required" THEN Some(Required)
              ELSE IF toolChoice.val.value \in {"auto", "none"} THEN Some(Auto)
              ELSE None
         ELSE IF toolChoice.val.type = "function" THEN Some(Required)
              ELSE None

\* mapToolChoice; undefined is None
mapToolChoice(toolChoice, hasTools) ==
    IF ~hasTools \/ ~TruthyChoice(toolChoice) THEN None
    ELSE IF toolChoice.val.shape = "string"
         THEN IF toolChoice.val.value = "required" THEN Some(Required)
              ELSE IF toolChoice.val.value \in {"auto", "none"} THEN Some(Auto)
              ELSE None
         ELSE IF toolChoice.val.type = "function" THEN Some(Required)
              ELSE None

\* vscode.LanguageModelTextPart and vscode.LanguageModelToolCallPart (the
\* input of a tool call is left out)
TextPart(value) == [kind |-> "text", value |-> value, callId |-> 0, name |-> ""]
ToolCallPart(callId, name) == [kind |-> "toolCall", value |-> <<>>, callId |-> callId, name |-> name]

\* the parts a first response is explored with: two texts, a call of the
\* registered tool and a call of a tool the registry does not hold
FirstParts ==
    {TextPart(<<"a">>), TextPart(<<"b">>), ToolCallPart(1, "x"), ToolCallPart(2, "y")}

\* the parts a follow-up response is explored with
FollowUpParts == {TextPart(<<"c">>), ToolCallPart(3, "x")}

\* the fragments of chatResponse.text: the values of the text parts
textOf(parts) ==
    LET texts == SelectSeq(parts, LAMBDA p : p.kind = "text")
    IN  [i \in 1..Len(texts) |-> texts[i].value]

\* what vscode.lm.invokeTool can do for a tool name: an unregistered name
\* is rejected; a registered tool returns content parts or throws, an Error
\* or a value that is no Error
ToolOutcomes(name) ==
    IF name \in RegisteredTools
    THEN {[threw |-> FALSE, isError |-> FALSE, message |-> "",
           content |-> <<TextPart(<<"r1">>), TextPart(<<"r2">>)>>],
          [threw |-> TRUE, isError |-> TRUE, message |-> "boom", content |-> <<>>],
          [threw |-> TRUE, isError |-> FALSE, message |-> "", content |-> <<>>]}
    ELSE {[threw |-> TRUE, isError |-> TRUE, message |-> "not found", content |-> <<>>]}

\* vscode.LanguageModelToolResultPart
ToolResultPart(callId, content) == [callId |-> callId, content |-> content]

\* a variant of invokeToolSafely without the try/catch
invokeToolUncaught(toolCall, outcome) ==
    [threw |-> outcome.threw, part |-> ToolResultPart(toolCall.callId, outcome.content)]

\* invokeToolSafely, given what vscode.lm.invokeTool did: it returns a result
\* part on success and on failure, and lets no exception out
invokeToolSafely(toolCall, outcome) ==
    IF ~outcome.threw
    THEN [threw |-> FALSE, part |-> ToolResultPart(toolCall.callId, outcome.content)]
    ELSE LET errorMsg == IF outcome.isError THEN outcome.message ELSE "Unknown error"
         IN  [threw |-> FALSE,
              part |-> ToolResultPart(toolCall.callId,
                           <<TextPart(<<"Error invoking tool: ", errorMsg>>)>>)]

----------------------------------------------------------------------------
(* The specification of prepareToolsForRequest and mapToolChoice: the two    *)
(* calls handleChatCompletions makes, on any explored tools list and choice  *)

\* the tool descriptors explored: function tools without and with a
\* description, the second under a name the registry does not hold; strings
\* that name a registered tool without and with a description, a name the
\* registry does not hold and a registered name in another case; objects
\* with a registered name and without a name
ToolDescriptors ==
    {FunctionTool("x"), DescribedTool("zz", <<"does zz">>),
     NamedTool("x"), NamedTool("d"), NamedTool("zz"), NamedTool("X"),
     ObjectTool("x"), ObjectTool("")}

\* the tool_choice values explored: absent, the empty string, the three
\* known strings, an unknown string, a function object and an object of
\* another type
ToolChoices ==
    {None, Some(StringChoice("")), Some(StringChoice("required")),
     Some(StringChoice("auto")), Some(StringChoice("none")),
     Some(StringChoice("any")), Some(ObjectChoice("function", "x")),
     Some(ObjectChoice("custom", "x"))}

ToolParked ==
    /\ tpc = "parked"
    /\ tTools = <<>>
    /\ tToolChoice = None
    /\ tToolsForRequest = None
    /\ tToolMode = None
    /\ tWarned = <<>>

ToolInit ==
    /\ tpc = "ready"
    /\ tTools \in BSeq(ToolDescriptors, MaxTools)
    /\ tToolChoice \in ToolChoices
    /\ tToolsForRequest = None
    /\ tToolMode = None
    /\ tWarned = <<>>

\* toolsForRequest = prepareToolsForRequest(tools) and
\* toolMode = mapToolChoice(toolChoice, !!toolsForRequest)
PrepareToolsCall ==
    /\ tpc = "ready"
    /\ tToolsForRequest' = prepareToolsForRequest(tTools)
    /\ tToolMode' = mapToolChoice(tToolChoice, tToolsForRequest'.some)
    /\ tWarned' = ToolWarnings(tTools)
    /\ tpc' = "done"
    /\ UNCHANGED <<tTools, tToolChoice>>

----------------------------------------------------------------------------
(* One chat-completion request: handleChatCompletions (routes.ts) and the   *)
(* response handlers (handlers/responseHandler.ts)                          *)

\* the tools lists a request is explored with
ToolsValues == {<<>>, <<FunctionTool("x")>>, <<NamedTool("zz")>>}

\* the conversation a request is explored with
ChatConversations ==
    {<<[role |-> "user", content |-> ContentAt(1)],
       [role |-> "system", content |-> ContentAt(2)]>>}

\* a fileOperation of a request: an absent filePath is the empty string, an
\* absent query or filePattern the empty text; `replacements` tells whether
\* the body carries a replacements array or oldString and newString
Operation(type, filePath, query, filePattern, replacements) ==
    [type |-> type, filePath |-> filePath, query |-> query, filePattern |-> filePattern,
     replacements |-> replacements]

\* the `search` file operations explored: a query with and without a file
\* pattern, and a missing query
SearchOperations ==
    {Some(Operation("search", "", <<"q">>, <<>>, FALSE)),
     Some(Operation("search", "", <<"q">>, <<"*.ts">>, FALSE)),
     Some(Operation("search", "", <<>>, <<>>, FALSE))}

\* the `read`, `edit` and `open` file operations explored: a readable file,
\* an unreadable file and a missing path; an edit without replacement fields
PathOperations ==
    {Some(Operation(type, filePath, <<>>, <<>>, TRUE)) :
        type \in {"read", "edit", "open"}, filePath \in {"", "f1", "f2"}}
    \cup {Some(Operation("edit", "f1", <<>>, <<>>, FALSE))}

\* the request bodies explored (stream absent is stream false, tools absent
\* is the empty list): every stream flag with every tools list, the
\* tool_choice values with and without tools, the search operations,
\* requests that name a model family (an absent model is the empty string),
\* the read, edit and open operations, and a streaming request that
\* requires a tool the registry does not hold
ChatRequests ==
    [messages : ChatConversations, stream : BOOLEAN, tools : ToolsValues,
     tool_choice : {None}, fileOperation : {None}, model : {""}]
    \cup [messages : ChatConversations, stream : {FALSE}, tools : {<<>>},
          tool_choice : {Some(StringChoice("required"))}, fileOperation : {None},
          model : {""}]
    \cup [messages : ChatConversations, stream : {FALSE}, tools : {<<FunctionTool("x")>>},
          tool_choice : {Some(ObjectChoice("function", "x"))}, fileOperation : {None},
          model : {""}]
    \cup [messages : ChatConversations, stream : {FALSE}, tools : {<<>>},
          tool_choice : {None}, fileOperation : SearchOperations, model : {""}]
    \cup [messages : ChatConversations, stream : {TRUE}, tools : {<<>>},
          tool_choice : {None}, fileOperation : {None}, model : {"gpt-4o", "gpt-9"}]
    \cup [messages : ChatConversations, stream : {TRUE}, tools : {<<>>},
          tool_choice : {None}, fileOperation : PathOperations, model : {""}]
    \cup [messages : ChatConversations, stream : {TRUE}, tools : {<<NamedTool("zz")>>},
          tool_choice : {Some(StringChoice("required"))}, fileOperation : {None},
          model : {""}]

\* the configured copilotAsService.model (the setting's default value)
defaultModel == "gpt-5-mini"

\* a variant of ModelToUse that always takes the configured model
ModelFromConfig(rd) == defaultModel

\* requestData.model || defaultModel
ModelToUse(rd) == IF rd.model # "" THEN rd.model ELSE defaultModel

\* vscode.lm.selectChatModels({vendor: 'copilot', family})
selectChatModels(offered, family) == IF family \in offered THEN {family} ELSE {}

\* the sets of families the environment is explored with
FamilySets == {{}, {"gpt-5-mini", "gpt-4o"}}

\* the response before anything is written
NoResponse ==
    [status |-> 0, contentType |-> "", object |-> "", errorType |-> "", errorCode |-> "",
     content |-> <<>>, events |-> <<>>, ended |-> FALSE]

\* res.writeHead(status, application/json) and res.end({error: ...})
ErrorResponse(status, type) ==
    [status |-> status, contentType |-> "application/json", object |-> "error",
     errorType |-> type, errorCode |-> type, content |-> <<>>, events |-> <<>>, ended |-> TRUE]

\* res.writeHead(200, application/json) and res.end(chat.completion)
CompletionResponse(text) ==
    [status |-> 200, contentType |-> "application/json", object |-> "chat.completion",
     errorType |-> "", errorCode |-> "", content |-> text, events |-> <<>>, ended |-> TRUE]

\* the warning of the forced non-streaming mode
ForcedWarning == "Streaming mode is not supported with tool invocation. Forcing non-streaming mode."

\* a variant of ForceNonStreaming that leaves the caller's flag alone
KeepCallerStream(stream0, tools) == [stream |-> stream0, warned |-> FALSE]

\* the stream flag of the request after the check for tools, and whether
\* the warning is written
ForceNonStreaming(stream0, tools) ==
    IF stream0 /\ Len(tools) > 0
    THEN [stream |-> FALSE, warned |-> TRUE]
    ELSE [stream |-> stream0, warned |-> FALSE]

\* the text of the catch around the file operation
OperationError(type, message) ==
    <<"# File Operation Error", "\n", "Type: ", type, "\n", "Error: ", message>>

\* the try block around the file operation: the summary of the operation,
\* or the message of the exception it throws. readFileContent and editFile
\* throw when the file cannot be read, openFileInEditor returns false
TryFileOperation(op) ==
    CASE op.type = "read" ->
           IF op.filePath = ""
           THEN [threw |-> TRUE, text |-> <<"filePath is required for read operation">>]
           ELSE IF op.filePath \notin ReadableFiles
           THEN [threw |-> TRUE, text |-> <<"ENOENT">>]
           ELSE [threw |-> FALSE,
                 text |-> <<"# File Read: ", op.filePath, "\n", "<fence>", "\n",
                            "content of ", op.filePath, "\n", "<fence>", "\n",
                            "Total lines: ", "1">>]
      [] op.type = "edit" ->
           IF op.filePath = ""
           THEN [threw |-> TRUE, text |-> <<"filePath is required for edit operation">>]
           ELSE IF ~op.replacements
           THEN [threw |-> TRUE,
                 text |-> <<"Either replacements array or oldString/newString is required">>]
           ELSE IF op.filePath \notin ReadableFiles
           THEN [threw |-> TRUE, text |-> <<"ENOENT">>]
           ELSE [threw |-> FALSE,
                 text |-> <<"# File Edit: ", op.filePath, "\n", "Replacements made: ", "1",
                            "\n", "Success: ", "true">>]
      [] op.type = "open" ->
           IF op.filePath = ""
           THEN [threw |-> TRUE, text |-> <<"filePath is required for open operation">>]
           ELSE [threw |-> FALSE,
                 text |-> <<"# File Open: ", op.filePath, "\n", "Success: ",
                            IF op.filePath \in ReadableFiles THEN "true" ELSE "false">>]
      [] op.type = "search" ->
           IF op.query = <<>>
           THEN [threw |-> TRUE, text |-> <<"query is required for search operation">>]
           ELSE LET searchResult == searchWorkspaceCode(NoFiles, op.query, op.filePattern,
                                                      DefaultMaxResults)
                IN  [threw |-> FALSE,
                     text |-> IF Truthy(searchResult) THEN searchResult.val
                              ELSE <<"No search results">>]
      [] OTHER -> [threw |-> FALSE, text |-> <<>>]

\* the summary of a file operation: the text of the operation, or the
\* error summary when the operation throws
FileOperationSummary(op) ==
    LET tried == TryFileOperation(op)
    IN  IF tried.threw THEN OperationError(op.type, tried.text) ELSE tried.text

\* a variant of runFileOperation without the try/catch
runFileOperationUncaught(op) ==
    [threw |-> TryFileOperation(op).threw, result |-> Some(TryFileOperation(op).text)]

\* the file operation with its try/catch: no exception leaves it
runFileOperation(op) == [threw |-> FALSE, result |-> Some(FileOperationSummary(op))]

\* the options handleChatCompletions passes to prepareChatMessages
\* (includeWorkspaceContext is absent from the explored bodies, so it is
\* true; so are response_format, fileReads and codeSearch)
PreparationOptions(rd, result) ==
    [messages |-> rd.messages, includeWorkspaceContext |-> TRUE,
     responseFormat |-> None, fileReads |-> None, codeSearch |-> None,
     fileOperationResult |-> result,
     workspaceFolders |-> TRUE]

\* a variant of RequestOptions that maps tool_choice by the tools list of
\* the body instead of the resolved tools
RequestOptionsByRawTools(rd) ==
    [justification |-> "External API request via Copilot as Service",
     tools |-> prepareToolsForRequest(rd.tools),
     toolMode |-> mapToolChoice(rd.tool_choice, Len(rd.tools) > 0)]

\* requestOptions: toolsForRequest and the tool mode mapped from tool_choice
RequestOptions(rd) ==
    LET toolsForRequest == prepareToolsForRequest(rd.tools)
        toolMode == mapToolChoice(rd.tool_choice, toolsForRequest.some)
    IN  [justification |-> "External API request via Copilot as Service",
         tools |-> toolsForRequest,
         toolMode |-> toolMode]

\* a variant of NeedsToolRound that runs the round for every response
AlwaysToolRound(calls) == TRUE

\* handleNonStreamingResponse runs the tool round iff tool calls were collected
NeedsToolRound(calls) == Len(calls) > 0

\* a variant of JoinTextParts that separates the parts by line breaks
JoinTextPartsByLines(parts) == Join(parts, <<"\n">>)

\* textParts.join('')
JoinTextParts(parts) == Join(parts, <<>>)

\* a variant of TextAfterRound that keeps the text of the first response
TextOfBothResponses(firstText, followUpText) == firstText \o followUpText

\* the text handleNonStreamingResponse returns after a tool round
TextAfterRound(firstText, followUpText) == followUpText

\* a variant of Startable that starts every call without awaiting the others
StartableAll ==
    {i \in 1..Len(toolCallParts) : \A k \in 1..Len(invocations) : invocations[k] # i}

\* the tool calls processToolCalls may start now: the loop awaits each
\* invocation before it starts the next one
Startable ==
    IF inFlight = {} /\ Len(toolResultParts) < Len(toolCallParts)
    THEN {Len(toolResultParts) + 1}
    ELSE {}

\* a variant of PushResult that puts the result in front
PushResultFront(results, result) == <<result>> \o results

\* toolResultParts.push(result)
PushResult(results, result) == Append(results, result)

ChatParked ==
    /\ pc = "parked"
    /\ requestData = [messages |-> <<>>, stream |-> FALSE, tools |-> <<>>,
                      tool_choice |-> None, fileOperation |-> None, model |-> ""]
    /\ families = {}
    /\ modelAvailable = FALSE
    /\ stream = FALSE
    /\ warnings = <<>>
    /\ fileOperationResult = None
    /\ prepared = <<>>
    /\ requestsSent = <<>>
    /\ chatResponse = <<>>
    /\ followUpResponse = <<>>
    /\ fragmentsTaken = 0
    /\ textParts = <<>>
    /\ toolCallParts = <<>>
    /\ assistantToolCallMessage = None
    /\ toolResultParts = <<>>
    /\ inFlight = {}
    /\ invocations = <<>>
    /\ toolOutcomes = <<>>
    /\ userToolResultMessage = None
    /\ fullText = <<>>
    /\ thrown = "none"
    /\ res = NoResponse

ChatInit ==
    /\ pc = "start"
    /\ requestData \in ChatRequests
    /\ families \in FamilySets
    /\ modelAvailable = (selectChatModels(families, ModelToUse(requestData)) # {})
    /\ stream = FALSE
    /\ warnings = <<>>
    /\ fileOperationResult = None
    /\ prepared = <<>>
    /\ requestsSent = <<>>
    /\ chatResponse = <<>>
    /\ followUpResponse = <<>>
    /\ fragmentsTaken = 0
    /\ textParts = <<>>
    /\ toolCallParts = <<>>
    /\ assistantToolCallMessage = None
    /\ toolResultParts = <<>>
    /\ inFlight = {}
    /\ invocations = <<>>
    /\ toolOutcomes = <<>>
    /\ userToolResultMessage = None
    /\ fullText = <<>>
    /\ thrown = "none"
    /\ res = NoResponse

\* the catch of handleChatCompletions: 500 internal_error
Catch(origin) ==
    /\ thrown' = origin
    /\ res' = ErrorResponse(500, "internal_error")
    /\ pc' = "done"

\* a variant of ModelNotAvailable that runs the file operation of the
\* request before it looks at the selected models
ModelNotAvailableAfterOperation ==
    /\ pc = "start"
    /\ ~modelAvailable
    /\ fileOperationResult' =
          IF requestData.fileOperation.some
          THEN runFileOperation(requestData.fileOperation.val).result
          ELSE None
    /\ res' = ErrorResponse(503, "model_not_available")
    /\ pc' = "done"
    /\ UNCHANGED <<requestData, families, modelAvailable, stream, warnings, prepared,
                   requestsSent, chatResponse, followUpResponse, fragmentsTaken, textParts,
                   toolCallParts, assistantToolCallMessage, toolResultParts,
                   inFlight, invocations, toolOutcomes, userToolResultMessage, fullText, thrown>>

\* selectChatModels found no model: 503
ModelNotAvailable ==
    /\ pc = "start"
    /\ ~modelAvailable
    /\ res' = ErrorResponse(503, "model_not_available")
    /\ pc' = "done"
    /\ UNCHANGED <<requestData, families, modelAvailable, stream, warnings, fileOperationResult, prepared,
                   requestsSent, chatResponse, followUpResponse, fragmentsTaken, textParts,
                   toolCallParts, assistantToolCallMessage, toolResultParts,
                   inFlight, invocations, toolOutcomes, userToolResultMessage, fullText, thrown>>

\* selectChatModels throws: 500
SelectModelFails ==
    /\ pc = "start"
    /\ Catch("selectModels")
    /\ UNCHANGED <<requestData, families, modelAvailable, stream, warnings, fileOperationResult, prepared,
                   requestsSent, chatResponse, followUpResponse, fragmentsTaken, textParts,
                   toolCallParts, assistantToolCallMessage, toolResultParts,
                   inFlight, invocations, toolOutcomes, userToolResultMessage, fullText>>

\* a model is selected; stream and tools are read and streaming is forced
\* off when tools are given
SelectModel ==
    /\ pc = "start"
    /\ modelAvailable
    /\ LET forced == ForceNonStreaming(requestData.stream, requestData.tools)
       IN  /\ stream' = forced.stream
           /\ warnings' = IF forced.warned THEN Append(warnings, ForcedWarning) ELSE warnings
    /\ pc' = "fileOperation"
    /\ UNCHANGED <<requestData, families, modelAvailable, fileOperationResult, prepared,
                   requestsSent, chatResponse, followUpResponse, fragmentsTaken, textParts,
                   toolCallParts, assistantToolCallMessage, toolResultParts,
                   inFlight, invocations, toolOutcomes, userToolResultMessage, fullText, thrown, res>>

\* the file operation of the request, if it has one, is executed and
\* summarised in fileOperationResult; an exception becomes the error summary
RunFileOperation ==
    /\ pc = "fileOperation"
    /\ IF requestData.fileOperation.some
       THEN LET ran == runFileOperation(requestData.fileOperation.val)
            IN  IF ran.threw
                THEN /\ Catch("fileOperation")
                     /\ UNCHANGED fileOperationResult
                ELSE /\ fileOperationResult' = ran.result
                     /\ pc' = "prepare"
                     /\ UNCHANGED <<thrown, res>>
       ELSE /\ fileOperationResult' = None
            /\ pc' = "prepare"
            /\ UNCHANGED <<thrown, res>>
    /\ UNCHANGED <<requestData, families, modelAvailable, stream, warnings, prepared,
                   requestsSent, chatResponse, followUpResponse, fragmentsTaken, textParts,
                   toolCallParts, assistantToolCallMessage, toolResultParts,
                   inFlight, invocations, toolOutcomes, userToolResultMessage, fullText>>

\* prepareChatMessages is awaited
PrepareRequest ==
    /\ pc = "prepare"
    /\ prepared' = prepareChatMessages(PreparationOptions(requestData, fileOperationResult))
    /\ pc' = "send"
    /\ UNCHANGED <<requestData, families, modelAvailable, stream, warnings, fileOperationResult,
                   requestsSent, chatResponse, followUpResponse, fragmentsTaken, textParts,
                   toolCallParts, assistantToolCallMessage, toolResultParts,
                   inFlight, invocations, toolOutcomes, userToolResultMessage, fullText, thrown, res>>

\* a call of model.sendRequest, as recorded in requestsSent
SentRequest(messages, failed) ==
    [messages |-> messages, options |-> RequestOptions(requestData), failed |-> failed]

\* the initial model.sendRequest throws
SendRequestFails ==
    /\ pc = "send"
    /\ requestsSent' = Append(requestsSent, SentRequest(prepared, TRUE))
    /\ Catch("model")
    /\ UNCHANGED <<requestData, families, modelAvailable, stream, warnings, fileOperationResult, prepared,
                   chatResponse, followUpResponse, fragmentsTaken, textParts,
                   toolCallParts, assistantToolCallMessage, toolResultParts,
                   inFlight, invocations, toolOutcomes, userToolResultMessage, fullText>>

\* a variant of StreamBranch that tests the caller's flag
StreamBranchOnCallerFlag(streamLocal, callerStream) == callerStream

\* `if (stream)`: the streaming path is taken iff the local stream is true
StreamBranch(streamLocal, callerStream) == streamLocal

\* the initial model.sendRequest returns a response; on the streaming path
\* handleStreamingResponse writes the event-stream head at once
SendRequestReturns ==
    /\ pc = "send"
    /\ requestsSent' = Append(requestsSent, SentRequest(prepared, FALSE))
    /\ \E parts \in BSeq(FirstParts, MaxParts) : chatResponse' = parts
    /\ IF StreamBranch(stream, requestData.stream)
       THEN /\ res' = [NoResponse EXCEPT !.status = 200, !.contentType = "text/event-stream"]
            /\ pc' = "stream"
       ELSE /\ res' = res
            /\ pc' = "drain"
    /\ UNCHANGED <<requestData, families, modelAvailable, stream, warnings, fileOperationResult, prepared,
                   followUpResponse, fragmentsTaken, textParts,
                   toolCallParts, assistantToolCallMessage, toolResultParts,
                   inFlight, invocations, toolOutcomes, userToolResultMessage, fullText, thrown>>

\* the chunk event of a text fragment
FragmentChunk(fragment) ==
    [object |-> "chat.completion.chunk", content |-> fragment, finish_reason |-> "null"]

\* the final chunk event: an empty delta and finish_reason "stop"
FinalChunk == [object |-> "chat.completion.chunk", content |-> <<>>, finish_reason |-> "stop"]

\* the event `data: [DONE]`
DoneEvent == [object |-> "[DONE]", content |-> <<>>, finish_reason |-> ""]

\* a variant of WriteFragment that keeps the fragment back
HoldFragment(events, fragment) == events

\* res.write of the chunk of a fragment, in the loop iteration that took it
WriteFragment(events, fragment) == Append(events, FragmentChunk(fragment))

\* handleStreamingResponse: the next text fragment is taken from
\* chatResponse.text and written as a chunk
StreamFragment ==
    /\ pc = "stream"
    /\ fragmentsTaken < Len(textOf(chatResponse))
    /\ fragmentsTaken' = fragmentsTaken + 1
    /\ res' = [res EXCEPT !.events = WriteFragment(@, textOf(chatResponse)[fragmentsTaken + 1])]
    /\ UNCHANGED <<pc, requestData, families, modelAvailable, stream, warnings, fileOperationResult, prepared,
                   requestsSent, chatResponse, followUpResponse, textParts,
                   toolCallParts, assistantToolCallMessage, toolResultParts,
                   inFlight, invocations, toolOutcomes, userToolResultMessage, fullText, thrown>>

\* handleStreamingResponse: chatResponse.text is exhausted; the final chunk,
\* [DONE] and res.end()
StreamFinish ==
    /\ pc = "stream"
    /\ fragmentsTaken = Len(textOf(chatResponse))
    /\ res' = [res EXCEPT !.events = @ \o <<FinalChunk, DoneEvent>>, !.ended = TRUE]
    /\ pc' = "done"
    /\ UNCHANGED <<requestData, families, modelAvailable, stream, warnings, fileOperationResult, prepared,
                   requestsSent, chatResponse, followUpResponse, fragmentsTaken, textParts,
                   toolCallParts, assistantToolCallMessage, toolResultParts,
                   inFlight, invocations, toolOutcomes, userToolResultMessage, fullText, thrown>>

\* handleStreamingResponse: chatResponse.text throws; the catch of
\* handleChatCompletions calls res.writeHead(500), which throws because the
\* head is already written, so nothing more is written and the response is
\* not ended
StreamFails ==
    /\ pc = "stream"
    /\ thrown' = "stream"
    /\ pc' = "done"
    /\ UNCHANGED <<requestData, families, modelAvailable, stream, warnings, fileOperationResult, prepared,
                   requestsSent, chatResponse, followUpResponse, fragmentsTaken, textParts,
                   toolCallParts, assistantToolCallMessage, toolResultParts,
                   inFlight, invocations, toolOutcomes, userToolResultMessage, fullText, res>>

\* handleNonStreamingResponse: the part stream of the first response throws
DrainFails ==
    /\ pc = "drain"
    /\ Catch("model")
    /\ UNCHANGED <<requestData, families, modelAvailable, stream, warnings, fileOperationResult, prepared,
                   requestsSent, chatResponse, followUpResponse, fragmentsTaken, textParts,
                   toolCallParts, assistantToolCallMessage, toolResultParts,
                   inFlight, invocations, toolOutcomes, userToolResultMessage, fullText>>

\* handleNonStreamingResponse: the part stream is drained, text parts and
\* tool-call parts are collected; without tool calls the joined text is
\* returned, with tool calls processToolCalls builds the assistant turn
DrainResponse ==
    /\ pc = "drain"
    /\ textParts' = textOf(chatResponse)
    /\ toolCallParts' = SelectSeq(chatResponse, LAMBDA p : p.kind = "toolCall")
    /\ IF NeedsToolRound(toolCallParts')
       THEN /\ assistantToolCallMessage' = Some(Assistant(toolCallParts', "toolCalls"))
            /\ fullText' = fullText
            /\ pc' = "invoke"
       ELSE /\ assistantToolCallMessage' = assistantToolCallMessage
            /\ fullText' = JoinTextParts(textParts')
            /\ pc' = "respond"
    /\ UNCHANGED <<requestData, families, modelAvailable, stream, warnings, fileOperationResult, prepared,
                   requestsSent, chatResponse, followUpResponse, fragmentsTaken, toolResultParts,
                   inFlight, invocations, toolOutcomes, userToolResultMessage, thrown, res>>

\* processToolCalls: invokeToolSafely(toolCall) is called for call i
InvokeStart(i) ==
    /\ pc = "invoke"
    /\ i \in Startable
    /\ inFlight' = inFlight \cup {i}
    /\ invocations' = Append(invocations, i)
    /\ UNCHANGED <<pc, requestData, families, modelAvailable, stream, warnings, fileOperationResult, prepared,
                   requestsSent, chatResponse, followUpResponse, fragmentsTaken, textParts,
                   toolCallParts, assistantToolCallMessage, toolResultParts,
                   toolOutcomes, userToolResultMessage, fullText, thrown, res>>

\* processToolCalls: the invocation of call i completes and its result is
\* pushed; an exception out of invokeToolSafely would reach the catch of
\* handleChatCompletions
InvokeComplete(i) ==
    /\ pc = "invoke"
    /\ i \in inFlight
    /\ \E outcome \in ToolOutcomes(toolCallParts[i].name) :
         LET result == invokeToolSafely(toolCallParts[i], outcome)
         IN  /\ toolOutcomes' = Append(toolOutcomes, [call |-> i, outcome |-> outcome])
             /\ inFlight' = inFlight \ {i}
             /\ IF result.threw
                THEN /\ Catch("tool")
                     /\ UNCHANGED toolResultParts
                ELSE /\ toolResultParts' = PushResult(toolResultParts, result.part)
                     /\ UNCHANGED <<pc, thrown, res>>
    /\ UNCHANGED <<requestData, families, modelAvailable, stream, warnings, fileOperationResult, prepared,
                   requestsSent, chatResponse, followUpResponse, fragmentsTaken, textParts,
                   toolCallParts, assistantToolCallMessage,
                   invocations, userToolResultMessage, fullText>>

\* every result of the round is pushed
RoundComplete ==
    /\ inFlight = {}
    /\ Len(toolResultParts) = Len(toolCallParts)

\* a variant of FollowUpMessages without the assistant turn
FollowUpMessagesWithoutCalls(user) == prepared \o <<user>>

\* followUpMessages
FollowUpMessages(user) == prepared \o <<assistantToolCallMessage.val, user>>

\* processToolCalls: the user turn is built and the follow-up sendRequest throws
FollowUpFails ==
    /\ pc = "invoke"
    /\ RoundComplete
    /\ LET user == User(toolResultParts, "toolResults")
       IN  /\ userToolResultMessage' = Some(user)
           /\ requestsSent' = Append(requestsSent, SentRequest(FollowUpMessages(user), TRUE))
    /\ Catch("model")
    /\ UNCHANGED <<requestData, families, modelAvailable, stream, warnings, fileOperationResult, prepared,
                   chatResponse, followUpResponse, fragmentsTaken, textParts,
                   toolCallParts, assistantToolCallMessage, toolResultParts,
                   inFlight, invocations, toolOutcomes, fullText>>

\* processToolCalls: the user turn is built and the follow-up sendRequest
\* returns a response
FollowUpReturns ==
    /\ pc = "invoke"
    /\ RoundComplete
    /\ LET user == User(toolResultParts, "toolResults")
       IN  /\ userToolResultMessage' = Some(user)
           /\ requestsSent' = Append(requestsSent, SentRequest(FollowUpMessages(user), FALSE))
    /\ \E parts \in BSeq(FollowUpParts, MaxFollowUpParts) : followUpResponse' = parts
    /\ pc' = "drainFollowUp"
    /\ UNCHANGED <<requestData, families, modelAvailable, stream, warnings, fileOperationResult, prepared,
                   chatResponse, fragmentsTaken, textParts,
                   toolCallParts, assistantToolCallMessage, toolResultParts,
                   inFlight, invocations, toolOutcomes, fullText, thrown, res>>

\* processToolCalls: the text stream of the follow-up response throws
DrainFollowUpFails ==
    /\ pc = "drainFollowUp"
    /\ Catch("model")
    /\ UNCHANGED <<requestData, families, modelAvailable, stream, warnings, fileOperationResult, prepared,
                   requestsSent, chatResponse, followUpResponse, fragmentsTaken, textParts,
                   toolCallParts, assistantToolCallMessage, toolResultParts,
                   inFlight, invocations, toolOutcomes, userToolResultMessage, fullText>>

\* processToolCalls: the text stream of the follow-up response is drained
\* and returned
DrainFollowUp ==
    /\ pc = "drainFollowUp"
    /\ fullText' = TextAfterRound(Join(textParts, <<>>),
                                  Join(textOf(followUpResponse), <<>>))
    /\ pc' = "respond"
    /\ UNCHANGED <<requestData, families, modelAvailable, stream, warnings, fileOperationResult, prepared,
                   requestsSent, chatResponse, followUpResponse, fragmentsTaken, textParts,
                   toolCallParts, assistantToolCallMessage, toolResultParts,
                   inFlight, invocations, toolOutcomes, userToolResultMessage, thrown, res>>

\* handleChatCompletions: the chat.completion is written
Respond ==
    /\ pc = "respond"
    /\ res' = CompletionResponse(fullText)
    /\ pc' = "done"
    /\ UNCHANGED <<requestData, families, modelAvailable, stream, warnings, fileOperationResult, prepared,
                   requestsSent, chatResponse, followUpResponse, fragmentsTaken, textParts,
                   toolCallParts, assistantToolCallMessage, toolResultParts,
                   inFlight, invocations, toolOutcomes, userToolResultMessage, fullText, thrown>>

----------------------------------------------------------------------------
(* generateNextActions: handlers/workflowHandler.ts                          *)
(* A response text is a sequence of words separated by single spaces. A file *)
(* path is its directory part (with the trailing slash), the stem of its     *)
(* last segment and the extension of its last segment (with the dot), each   *)
(* a string.                                                                 *)

\* the number of suggestions generateNextActions returns at most
MaxSuggestions == 3

Path(dir, stem, ext) == [dir |-> dir, stem |-> stem, ext |-> ext]

\* the string of a path
PathText(path) == path.dir \o path.stem \o path.ext

\* filePath.split('/').pop()?.replace(/\.[^/.]+$/, '') || '': the last
\* segment without its extension
fileBaseName(path) == path.stem

\* the file paths a fileOperation is explored with: a source file, a dotfile
\* (its last segment is all extension) and the empty string
FilePaths ==
    {Path(<<"src/">>, <<"a">>, <<".ts">>), Path(<<>>, <<>>, <<".env">>), Path(<<>>, <<>>, <<>>)}

\* a request of a suggested action
ActionRequest(messages, fileOperation, snd) ==
    [messages |-> messages, fileOperation |-> fileOperation, suggestNextActions |-> snd]

\* a fileOperation of a suggested request; an absent field is the empty string
FileOp(type, filePath, query) == [type |-> type, filePath |-> filePath, query |-> query]

\* a SuggestedAction (its reasoning is left out)
Action(description, request) == [description |-> description, request |-> request]

Msg(role, content) == [role |-> role, content |-> content]

\* a variant of OpenFollowUp whose request asks for further suggestions
OpenFollowUpSuggesting(description, message, text) ==
    Action(description,
           ActionRequest(<<Msg("user", message)>>, Some(FileOp("open", text, <<>>)), TRUE))

\* the suggestion to open the file in the editor: its request has
\* suggestNextActions false
OpenFollowUp(description, message, text) ==
    Action(description,
           ActionRequest(<<Msg("user", message)>>, Some(FileOp("open", text, <<>>)), FALSE))

\* a variant of HasBaseName that accepts the empty basename
AnyBaseName(base) == TRUE

\* if (fileBaseName)
HasBaseName(base) == base # <<>>

\* case 'read'
ReadSuggestions(filePath) ==
    IF filePath.some /\ PathText(filePath.val) # <<>>
    THEN LET text == PathText(filePath.val)
             base == fileBaseName(filePath.val)
         IN  <<Action(<<"Edit the file based on analysis">>,
                   ActionRequest(<<Msg("system", <<"Previous context: Analyzed ">> \o text),
                                   Msg("user", <<"Make the necessary improvements or fixes to this file">>)>>,
                                 Some(FileOp("read", text, <<>>)), TRUE))>>
             \o (IF HasBaseName(base)
                 THEN <<Action(<<"Find related code and dependencies">>,
                           ActionRequest(<<Msg("system", <<"Previous context: Analyzed ">> \o text),
                                           Msg("user", <<"Show me where this is used and related code">>)>>,
                                         Some(FileOp("search", <<>>, base)), TRUE))>>
                 ELSE <<>>)
             \o <<OpenFollowUp(<<"Open file in editor for manual review">>,
                               <<"Open this file for me to review">>, text)>>
    ELSE <<>>

\* the words [\w/.+-]+ can match as a whole
IsPathWord(word) == word # "##"

\* response.match(/## ([\w/.+-]+)/g): the words that follow a "##" word
HeadingMatches(response) ==
    LET at == {i \in 1..(Len(response) - 1) : response[i] = "##" /\ IsPathWord(response[i + 1])}
    IN  IF at = {} THEN None
        ELSE Some(<<response[(CHOOSE i \in at : \A j \in at : i <= j) + 1]>>)

\* case 'search'
SearchSuggestions(request, response) ==
    LET fileMatches == HeadingMatches(response)
    IN  (IF fileMatches.some
         THEN <<Action(<<"Read the most relevant file from search results">>,
                   ActionRequest(<<Msg("system", <<"Previous context: Searched and found relevant files">>),
                                   Msg("user", <<"Explain this file in detail">>)>>,
                                 Some(FileOp("read", fileMatches.val, <<>>)), TRUE))>>
         ELSE <<>>)
        \o (IF request.fileOperation.some /\ request.fileOperation.val.query # <<>>
            THEN <<Action(<<"Refine search with more specific terms">>,
                      ActionRequest(<<Msg("user", <<"Search for more specific implementation details">>)>>,
                                    Some(FileOp("search", <<>>, request.fileOperation.val.query)), TRUE))>>
            ELSE <<>>)

\* case 'edit'
EditSuggestions(filePath) ==
    IF filePath.some /\ PathText(filePath.val) # <<>>
    THEN LET text == PathText(filePath.val)
         IN  <<Action(<<"Verify the changes made to the file">>,
                   ActionRequest(<<Msg("system", <<"Previous context: Edited ">> \o text),
                                   Msg("user", <<"Show me the updated file to verify changes">>)>>,
                                 Some(FileOp("read", text, <<>>)), TRUE)),
               Action(<<"Find related files that might need similar updates">>,
                   ActionRequest(<<Msg("system", <<"Previous context: Made edits to ">> \o text),
                                   Msg("user", <<"Find other files that might need similar updates">>)>>,
                                 Some(FileOp("search", <<>>, fileBaseName(filePath.val))), TRUE)),
               OpenFollowUp(<<"Open the edited file for manual review">>,
                            <<"Open the edited file">>, text)>>
    ELSE <<>>

\* case 'open'
OpenSuggestions(filePath) ==
    IF filePath.some /\ PathText(filePath.val) # <<>>
    THEN <<Action(<<"Analyze the opened file with AI">>,
               ActionRequest(<<Msg("user", <<"Review this file for potential improvements">>)>>,
                             Some(FileOp("read", PathText(filePath.val), <<>>)), TRUE))>>
    ELSE <<>>

\* the words the pattern [a-zA-Z0-9_/-]+\.(ts|js|py|json|md|txt) matches
IsFileWord(word) == word \in {"src/a.ts", "b.md"}

\* response.match(filePattern): the file words of the response, in order
mentionedFiles(response) == SelectSeq(response, IsFileWord)

\* lowerResponse.includes('search') || lowerResponse.includes('find')
MentionsSearch(response) ==
    \E i \in 1..Len(response) : toLowerCase(response[i]) \in {"search", "find"}

\* a variant of ContinuationMessages without the reply of the assistant
ContinuationWithoutReply(request, response) ==
    request.messages \o <<Msg("user", <<"Tell me more about this">>)>>

\* the messages of the follow-up request: the conversation of the request,
\* the response as an assistant turn and the continuation prompt
ContinuationMessages(request, response) ==
    request.messages \o <<Msg("assistant", response), Msg("user", <<"Tell me more about this">>)>>

\* no file operation: suggestions from the conversation
GeneralSuggestions(request, response) ==
    (IF Len(mentionedFiles(response)) > 0
     THEN LET firstFile == mentionedFiles(response)[1]
          IN  <<Action(<<"Read the mentioned file: ", firstFile>>,
                    ActionRequest(<<Msg("system", <<"Previous context: Discussed ", firstFile>>),
                                    Msg("user", <<"Show me this file and explain it">>)>>,
                                  Some(FileOp("read", <<firstFile>>, <<>>)), TRUE))>>
     ELSE <<>>)
    \o (IF MentionsSearch(response)
        THEN <<Action(<<"Search the workspace for relevant code">>,
                  ActionRequest(<<Msg("user", <<"Search for the implementation">>)>>,
                                Some(FileOp("search", <<>>, <<"implementation">>)), TRUE))>>
        ELSE <<>>)
    \o <<Action(<<"Ask a follow-up question">>,
             ActionRequest(ContinuationMessages(request, response), None, TRUE))>>

\* the suggestions pushed before the final slice
Candidates(request, response, fileOperationType, filePath) ==
    IF ~request.suggestNextActions THEN <<>>
    ELSE IF fileOperationType.some /\ fileOperationType.val # ""
    THEN CASE fileOperationType.val = "read" -> ReadSuggestions(filePath)
           [] fileOperationType.val = "search" -> SearchSuggestions(request, response)
           [] fileOperationType.val = "edit" -> EditSuggestions(filePath)
           [] fileOperationType.val = "open" -> OpenSuggestions(filePath)
           [] OTHER -> <<>>
    ELSE GeneralSuggestions(request, response)

\* a variant of SliceTop that keeps one suggestion less
SliceTopButOne(list) ==
    SubSeq(list, 1, IF Len(list) < MaxSuggestions - 1 THEN Len(list) ELSE MaxSuggestions - 1)

\* suggestions.slice(0, 3)
SliceTop(list) ==
    SubSeq(list, 1, IF Len(list) < MaxSuggestions THEN Len(list) ELSE MaxSuggestions)

\* generateNextActions
generateNextActions(request, response, fileOperationType, filePath) ==
    SliceTop(Candidates(request, response, fileOperationType, filePath))

\* the number of characters of the last question that buildContextSummary
\* keeps
SummaryLimit == 100

\* buildContextSummary: the last action, when the request has an operation
\* type and a file path, and the last user message, cut at 100 characters
buildContextSummary(request, fileOperationType, filePath) ==
    LET users == SelectSeq(request.messages, LAMBDA m : m.role = "user")
        content == users[Len(users)].content
    IN  Join((IF /\ fileOperationType.some /\ fileOperationType.val # ""
                 /\ filePath.some /\ PathText(filePath.val) # <<>>
              THEN <<<<"Last action: ", fileOperationType.val, " on ">> \o PathText(filePath.val)>>
              ELSE <<>>)
             \o (IF users # <<>>
                 THEN <<<<"Last question: ", "<quote>">>
                        \o (IF Len(content) > SummaryLimit
                            THEN SubSeq(content, 1, SummaryLimit) \o <<"...">>
                            ELSE content)
                        \o <<"<quote>">>>>
                 ELSE <<>>),
             <<"\n">>)

\* a variant of WorkflowKeys that adds the keys whenever suggestions are asked for
WorkflowKeysWhenAsked(request, suggestedActions, fileOperationType, filePath) ==
    IF request.suggestNextActions
    THEN [suggested_actions |-> Some(suggestedActions),
          context_summary |-> Some(buildContextSummary(request, fileOperationType, filePath))]
    ELSE [suggested_actions |-> None, context_summary |-> None]

\* the keys handleChatCompletions adds to the chat.completion for workflow
\* suggestions; an absent key is None
WorkflowKeys(request, suggestedActions, fileOperationType, filePath) ==
    LET contextSummary == IF request.suggestNextActions
                          THEN Some(buildContextSummary(request, fileOperationType, filePath))
                          ELSE None
    IN  IF request.suggestNextActions /\ Len(suggestedActions) > 0
        THEN [suggested_actions |-> Some(suggestedActions), context_summary |-> contextSummary]
        ELSE [suggested_actions |-> None, context_summary |-> None]

\* the words a response text is explored with
ResponseWords == {"##", "src/a.ts", "b.md", "Find", "ok"}

\* the fileOperation values of the explored requests: absent, each of the
\* four types and a type the switch does not know, with and without a path
\* and a query
FileOperations ==
    {None}
    \cup {Some([type |-> t, filePath |-> fp, query |-> q]) :
            t \in {"read", "edit", "open", "search", "delete"},
            fp \in {None} \cup {Some(x) : x \in FilePaths},
            q \in {<<>>, <<"q">>}}

\* the conversations generateNextActions is explored with: the one of the
\* chat requests, and one without a user message
SuggestConversations ==
    ChatConversations \cup {<<[role |-> "system", content |-> ContentAt(2)]>>}

\* the requests generateNextActions is explored with
SuggestRequests ==
    [messages : SuggestConversations, suggestNextActions : BOOLEAN, fileOperation : FileOperations]

\* requestData.fileOperation?.type and requestData.fileOperation?.filePath
OperationType(request) ==
    IF request.fileOperation.some THEN Some(request.fileOperation.val.type) ELSE None
OperationPath(request) ==
    IF request.fileOperation.some THEN request.fileOperation.val.filePath ELSE None

SuggestParked ==
    /\ gpc = "parked"
    /\ gRequest = [messages |-> <<>>, suggestNextActions |-> FALSE, fileOperation |-> None]
    /\ gResponse = <<>>
    /\ suggestions = <<>>
    /\ gActions = <<>>
    /\ gBody = <<>>

SuggestInit ==
    /\ gpc = "ready"
    /\ gRequest \in SuggestRequests
    /\ gResponse \in BSeq(ResponseWords, MaxWords)
    /\ suggestions = <<>>
    /\ gActions = <<>>
    /\ gBody = <<>>

\* the call of generateNextActions as handleChatCompletions makes it
GenerateCall ==
    /\ gpc = "ready"
    /\ suggestions' = Candidates(gRequest, gResponse, OperationType(gRequest), OperationPath(gRequest))
    /\ gActions' = generateNextActions(gRequest, gResponse, OperationType(gRequest), OperationPath(gRequest))
    /\ gpc' = "done"
    /\ UNCHANGED <<gRequest, gResponse, gBody>>

\* handleChatCompletions builds the chat.completion and adds the workflow
\* keys
BuildResponse ==
    /\ gpc = "done"
    /\ gBody' = WorkflowKeys(gRequest, gActions, OperationType(gRequest), OperationPath(gRequest))
    /\ gpc' = "written"
    /\ UNCHANGED <<gRequest, gResponse, suggestions, gActions>>

----------------------------------------------------------------------------
(* The server of the extension: startServer, stopServer and the restart     *)
(* command (extension.ts), with the callbacks of the instances they create  *)

\* an http.Server instance: `state` is what the extension did with it,
\* `pending` whether the outcome of its listen() is outstanding, `closing`
\* whether the callback of its close() is outstanding
Instance(state, pending, closing) == [state |-> state, pending |-> pending, closing |-> closing]

\* the module state startServer and stopServer work on
Extension(srv, insts, bar, shown) ==
    [server |-> srv, instances |-> insts, statusBar |-> bar, notices |-> shown]

\* a variant of startServer without the test of the held handle
startServerUnguarded(ext) ==
    [ext EXCEPT !.instances = Append(@, Instance("starting", TRUE, FALSE)),
                !.server = Len(ext.instances) + 1]

\* startServer: a warning when a server is held, else a new instance is
\* created, stored in `server` and told to listen
startServer(ext) ==
    IF ext.server # 0
    THEN [ext EXCEPT !.notices = Append(@, "already running")]
    ELSE [ext EXCEPT !.instances = Append(@, Instance("starting", TRUE, FALSE)),
                     !.server = Len(ext.instances) + 1]

\* stopServer: the held instance is closed and released, the status bar
\* shows stopped; nothing when no server is held
stopServer(ext) ==
    IF ext.server # 0
    THEN [ext EXCEPT !.instances[ext.server].state = "stopped",
                     !.instances[ext.server].closing = TRUE,
                     !.server = 0,
                     !.statusBar = "stopped"]
    ELSE ext

\* the module state now
CurrentExtension == Extension(server, instances, statusBar, notices)

\* the module state becomes ext
BecomeExtension(ext) ==
    /\ server' = ext.server
    /\ instances' = ext.instances
    /\ statusBar' = ext.statusBar
    /\ notices' = ext.notices

ServerParked ==
    /\ server = 0
    /\ instances = <<>>
    /\ statusBar = "parked"
    /\ notices = <<>>
    /\ lastCommand = "parked"
    /\ commands = 0

\* activate, with autoStart off: the status bar item exists, no server
ServerInit ==
    /\ server = 0
    /\ instances = <<>>
    /\ statusBar = "hidden"
    /\ notices = <<>>
    /\ lastCommand = "activate"
    /\ commands = 0

\* the command vscode-copilot-as-service.start
StartCommand ==
    /\ commands < MaxCommands
    /\ BecomeExtension(startServer(CurrentExtension))
    /\ lastCommand' = "start"
    /\ commands' = commands + 1

\* the command vscode-copilot-as-service.stop
StopCommand ==
    /\ commands < MaxCommands
    /\ BecomeExtension(stopServer(CurrentExtension))
    /\ lastCommand' = "stop"
    /\ commands' = commands + 1

\* the command vscode-copilot-as-service.restart: stopServer(); startServer()
RestartCommand ==
    /\ commands < MaxCommands
    /\ BecomeExtension(startServer(stopServer(CurrentExtension)))
    /\ lastCommand' = "restart"
    /\ commands' = commands + 1

\* the port is bound by an instance other than i
PortTaken(i) == \E j \in 1..Len(instances) : j # i /\ instances[j].state = "listening"

\* the listen callback of instance i: the instance is listening and the
\* status bar shows running (a listen that was outstanding when close() was
\* called may still complete)
ListeningCallback(i) ==
    /\ i \in 1..Len(instances)
    /\ instances[i].pending
    /\ ~PortTaken(i)
    /\ instances' = [instances EXCEPT ![i].pending = FALSE, ![i].state = "listening"]
    /\ notices' = Append(notices, "started")
    /\ statusBar' = "running"
    /\ lastCommand' = "listening"
    /\ UNCHANGED <<server, commands>>

\* the 'error' handler of instance i: listen failed (the port is in use, or
\* another error); the module handle is cleared and the status bar shows
\* stopped
ErrorCallback(i) ==
    /\ i \in 1..Len(instances)
    /\ instances[i].pending
    /\ instances' = [instances EXCEPT ![i].pending = FALSE, ![i].state = "failed"]
    /\ notices' = Append(notices, IF PortTaken(i) THEN "port in use" ELSE "failed to start")
    /\ server' = 0
    /\ statusBar' = "stopped"
    /\ lastCommand' = "error"
    /\ UNCHANGED commands

\* the listen of an instance closed before it was listening is dropped
ListenDropped(i) ==
    /\ i \in 1..Len(instances)
    /\ instances[i].pending
    /\ instances[i].state = "stopped"
    /\ instances' = [instances EXCEPT ![i].pending = FALSE]
    /\ lastCommand' = "dropped"
    /\ UNCHANGED <<server, statusBar, notices, commands>>

\* the callback of server.close of instance i
CloseCallback(i) ==
    /\ i \in 1..Len(instances)
    /\ instances[i].closing
    /\ instances' = [instances EXCEPT ![i].closing = FALSE]
    /\ notices' = Append(notices, "stopped")
    /\ lastCommand' = "closed"
    /\ UNCHANGED <<server, statusBar, commands>>

----------------------------------------------------------------------------
(* Two chat-completion requests in flight: the request listener of          *)
(* extension.ts calls handleChatCompletions once per request, and each call *)
(* suspends at its awaits, where the other call may run. Every collection   *)
(* of the handlers is a local of the call that created it; the answers of   *)
(* the collaborators (the model, the tool registry) are fixed per request   *)
(* before the calls run.                                                    *)

\* the requests in flight
Handlers == 1..MaxHandlers

\* a request body with one user message
HBody(i, stream0, tools) ==
    [messages |-> <<[role |-> "user", content |-> ContentAt(i)]>>, stream |-> stream0,
     tools |-> tools, tool_choice |-> None, fileOperation |-> None, model |-> ""]

\* the request bodies explored: a tool request, a streaming request and a
\* streaming request with tools
HandlerBodies ==
    {HBody(1, FALSE, <<FunctionTool("x")>>), HBody(2, TRUE, <<>>),
     HBody(3, TRUE, <<FunctionTool("x")>>)}

\* the tool outcomes explored
ToolReturned ==
    [threw |-> FALSE, isError |-> FALSE, message |-> "",
     content |-> <<TextPart(<<"r1">>), TextPart(<<"r2">>)>>]
ToolRejected == [threw |-> TRUE, isError |-> TRUE, message |-> "not found", content |-> <<>>]

\* the collaborator answers explored for one request: the part stream of
\* the first response, the outcome of each tool call of that stream, and
\* the part stream of the follow-up response
HandlerAnswers ==
    {[first |-> <<ToolCallPart(1, "x"), TextPart(<<"a">>), ToolCallPart(2, "y")>>,
      outcomes |-> <<ToolReturned, ToolRejected>>,
      followUp |-> <<TextPart(<<"c">>)>>],
     [first |-> <<TextPart(<<"a">>), TextPart(<<"b">>)>>,
      outcomes |-> <<>>,
      followUp |-> <<>>]}

\* the locals of a call of handleChatCompletions before its first statement
FreshLocals ==
    [pc |-> "start", stream |-> FALSE, prepared |-> <<>>, requestsSent |-> <<>>,
     taken |-> 0, textParts |-> <<>>, toolCallParts |-> <<>>, fullText |-> <<>>,
     res |-> NoResponse]

\* a variant of ResultsOf in which every call of processToolCalls pushes to
\* one array of the module
ResultsOfModule(r) == 1

\* `const toolResultParts = []`: the array a call of processToolCalls
\* pushes to is its own
ResultsOf(r) == r

HandlersParked ==
    /\ hRequests = <<>>
    /\ hAnswers = <<>>
    /\ handlers = <<>>
    /\ hResults = <<>>

HandlersInit ==
    /\ hRequests \in [Handlers -> HandlerBodies]
    /\ hAnswers \in [Handlers -> HandlerAnswers]
    /\ handlers = [r \in Handlers |-> FreshLocals]
    /\ hResults = [r \in Handlers |-> <<>>]

\* the locals of call r change to `locals`
SetLocals(r, locals) == handlers' = [handlers EXCEPT ![r] = locals]

\* handleChatCompletions of request r: the body is parsed, the model is
\* selected and the stream flag is settled
HSelectModel(r) ==
    /\ handlers[r].pc = "start"
    /\ SetLocals(r, [handlers[r] EXCEPT
           !.stream = ForceNonStreaming(hRequests[r].stream, hRequests[r].tools).stream,
           !.pc = "prepare"])
    /\ UNCHANGED <<hRequests, hAnswers, hResults>>

\* handleChatCompletions of request r: await prepareChatMessages
HPrepare(r) ==
    /\ handlers[r].pc = "prepare"
    /\ SetLocals(r, [handlers[r] EXCEPT
           !.prepared = prepareChatMessages(PreparationOptions(hRequests[r], None)),
           !.pc = "send"])
    /\ UNCHANGED <<hRequests, hAnswers, hResults>>

\* handleChatCompletions of request r: await model.sendRequest; on the
\* streaming path the event-stream head is written
HSend(r) ==
    /\ handlers[r].pc = "send"
    /\ SetLocals(r, [handlers[r] EXCEPT
           !.requestsSent = Append(@, handlers[r].prepared),
           !.res = IF StreamBranch(handlers[r].stream, hRequests[r].stream)
                   THEN [NoResponse EXCEPT !.status = 200, !.contentType = "text/event-stream"]
                   ELSE @,
           !.pc = IF StreamBranch(handlers[r].stream, hRequests[r].stream)
                  THEN "stream" ELSE "drain"])
    /\ UNCHANGED <<hRequests, hAnswers, hResults>>

\* handleStreamingResponse of request r: one iteration of the loop over
\* chatResponse.text
HStreamFragment(r) ==
    /\ handlers[r].pc = "stream"
    /\ handlers[r].taken < Len(textOf(hAnswers[r].first))
    /\ SetLocals(r, [handlers[r] EXCEPT
           !.taken = @ + 1,
           !.res.events = WriteFragment(@, textOf(hAnswers[r].first)[handlers[r].taken + 1])])
    /\ UNCHANGED <<hRequests, hAnswers, hResults>>

\* handleStreamingResponse of request r: the final chunk, [DONE] and res.end()
HStreamFinish(r) ==
    /\ handlers[r].pc = "stream"
    /\ handlers[r].taken = Len(textOf(hAnswers[r].first))
    /\ SetLocals(r, [handlers[r] EXCEPT
           !.res.events = @ \o <<FinalChunk, DoneEvent>>,
           !.res.ended = TRUE,
           !.pc = "done"])
    /\ UNCHANGED <<hRequests, hAnswers, hResults>>

\* handleNonStreamingResponse of request r: one iteration of the loop over
\* chatResponse.stream
HDrainPart(r) ==
    /\ handlers[r].pc = "drain"
    /\ handlers[r].taken < Len(hAnswers[r].first)
    /\ LET part == hAnswers[r].first[handlers[r].taken + 1]
       IN  SetLocals(r, [handlers[r] EXCEPT
               !.taken = @ + 1,
               !.textParts = IF part.kind = "text" THEN Append(@, part.value) ELSE @,
               !.toolCallParts = IF part.kind = "toolCall" THEN Append(@, part) ELSE @])
    /\ UNCHANGED <<hRequests, hAnswers, hResults>>

\* handleNonStreamingResponse of request r: the stream is exhausted; the
\* text is joined, and with tool calls processToolCalls starts with an
\* empty toolResultParts
HDrainEnd(r) ==
    /\ handlers[r].pc = "drain"
    /\ handlers[r].taken = Len(hAnswers[r].first)
    /\ IF NeedsToolRound(handlers[r].toolCallParts)
       THEN /\ SetLocals(r, [handlers[r] EXCEPT !.taken = 0, !.pc = "invoke"])
            /\ hResults' = [hResults EXCEPT ![ResultsOf(r)] = <<>>]
       ELSE /\ SetLocals(r, [handlers[r] EXCEPT
                   !.fullText = Join(handlers[r].textParts, <<>>), !.pc = "respond"])
            /\ UNCHANGED hResults
    /\ UNCHANGED <<hRequests, hAnswers>>

\* processToolCalls of request r: one iteration of the loop over
\* toolCallParts: await invokeToolSafely, then push
HInvoke(r) ==
    /\ handlers[r].pc = "invoke"
    /\ handlers[r].taken < Len(handlers[r].toolCallParts)
    /\ LET i == handlers[r].taken + 1
           result == invokeToolSafely(handlers[r].toolCallParts[i], hAnswers[r].outcomes[i])
       IN  hResults' = [hResults EXCEPT ![ResultsOf(r)] = PushResult(@, result.part)]
    /\ SetLocals(r, [handlers[r] EXCEPT !.taken = @ + 1])
    /\ UNCHANGED <<hRequests, hAnswers>>

\* processToolCalls of request r: the follow-up messages are built and the
\* follow-up request is sent
HFollowUp(r) ==
    /\ handlers[r].pc = "invoke"
    /\ handlers[r].taken = Len(handlers[r].toolCallParts)
    /\ LET assistant == Assistant(handlers[r].toolCallParts, "toolCalls")
           user == User(hResults[ResultsOf(r)], "toolResults")
       IN  SetLocals(r, [handlers[r] EXCEPT
               !.requestsSent = Append(@, handlers[r].prepared \o <<assistant, user>>),
               !.taken = 0,
               !.pc = "drainFollowUp"])
    /\ UNCHANGED <<hRequests, hAnswers, hResults>>

\* processToolCalls of request r: one iteration of the loop over
\* followUpResponse.text
HFollowUpFragment(r) ==
    /\ handlers[r].pc = "drainFollowUp"
    /\ handlers[r].taken < Len(textOf(hAnswers[r].followUp))
    /\ SetLocals(r, [handlers[r] EXCEPT
           !.taken = @ + 1,
           !.fullText = @ \o textOf(hAnswers[r].followUp)[handlers[r].taken + 1]])
    /\ UNCHANGED <<hRequests, hAnswers, hResults>>

\* processToolCalls of request r: the follow-up text is exhausted and returned
HFollowUpEnd(r) ==
    /\ handlers[r].pc = "drainFollowUp"
    /\ handlers[r].taken = Len(textOf(hAnswers[r].followUp))
    /\ SetLocals(r, [handlers[r] EXCEPT !.pc = "respond"])
    /\ UNCHANGED <<hRequests, hAnswers, hResults>>

\* handleChatCompletions of request r: the chat.completion is written
HRespond(r) ==
    /\ handlers[r].pc = "respond"
    /\ SetLocals(r, [handlers[r] EXCEPT
           !.res = CompletionResponse(handlers[r].fullText), !.pc = "done"])
    /\ UNCHANGED <<hRequests, hAnswers, hResults>>

----------------------------------------------------------------------------
(* The request listener of startServer (extension.ts) and the route         *)
(* handlers (routes.ts): one HTTP request, dispatched on method and url,    *)
(* answered by one response. A request body is abstracted to what the       *)
(* handlers test: it does not parse ("malformed"), it lacks the parameter   *)
(* the handler checks first ("empty"), it lacks the parameter checked       *)
(* second ("partial"), or it holds every parameter ("full"). The            *)
(* collaborator of the route (the model, the tool, the editor, the file     *)
(* system) succeeds ("ok"), reports failure in its return value ("failed")  *)
(* or throws ("threw"); a collaborator that has no failure value treats     *)
(* "failed" as "ok". A response body is its top-level keys and, when it has *)
(* an `error` key, the value of that key.                                   *)

\* the routes of the listener, by url
RouteUrls ==
    {"/v1/chat/completions", "/v1/models", "/health", "/v1/tools", "/v1/tools/invoke",
     "/v1/workspace/files/open", "/v1/workspace/files/add", "/v1/workspace/files/search",
     "/v1/workspace/files/edit", "/v1/workspace/files/read"}

\* the requests explored: the routes and an unknown url, under three methods
RouteRequests ==
    [method : {"GET", "POST", "OPTIONS"}, url : RouteUrls \cup {"/other"},
     body : {"malformed", "empty", "partial", "full"},
     outcome : {"ok", "failed", "threw"}]

\* no `error` key
NoError == [kind |-> "none", keys |-> {}, type |-> "", code |-> ""]

\* error: {message, type, code}
ErrorObject(type, code) ==
    [kind |-> "object", keys |-> {"message", "type", "code"}, type |-> type, code |-> code]

\* error: 'Not found'
ErrorString == [kind |-> "string", keys |-> {}, type |-> "", code |-> ""]

\* res.writeHead(status) and res.end(JSON.stringify(body))
JsonResponse(status, keys, error) ==
    [status |-> status, keys |-> keys, error |-> error, ended |-> TRUE]

\* res.writeHead(status) and res.end({error: {message, type, code}})
ErrorBody(status, type, code) == JsonResponse(status, {"error"}, ErrorObject(type, code))

\* the response before anything is written
NoRouteResponse == [status |-> 0, keys |-> {}, error |-> NoError, ended |-> FALSE]

\* handleChatCompletions, by its outcome: the body does not parse or a
\* collaborator throws (500), no model is found (503), or the completion is
\* written (200)
handleChatCompletions(rq) ==
    IF rq.body = "malformed" \/ rq.outcome = "threw"
    THEN ErrorBody(500, "internal_error", "internal_error")
    ELSE IF rq.outcome = "failed"
    THEN ErrorBody(503, "model_not_available", "model_not_available")
    ELSE JsonResponse(200, {"id", "object", "created", "model", "choices", "usage"}, NoError)

\* handleModels: the request body is not read
handleModels(rq) ==
    IF rq.outcome = "threw"
    THEN ErrorBody(500, "internal_error", "internal_error")
    ELSE JsonResponse(200, {"object", "data"}, NoError)

\* handleHealth
handleHealth(rq) == JsonResponse(200, {"status"}, NoError)

\* handleToolsList
handleToolsList(rq) == JsonResponse(200, {"object", "data"}, NoError)

\* handleToolInvoke
handleToolInvoke(rq) ==
    IF rq.body = "malformed"
    THEN ErrorBody(500, "tool_invocation_error", "tool_invocation_error")
    ELSE IF rq.body = "empty"
    THEN ErrorBody(400, "invalid_request_error", "missing_parameter")
    ELSE IF rq.outcome = "threw"
    THEN ErrorBody(500, "tool_invocation_error", "tool_invocation_error")
    ELSE JsonResponse(200, {"tool_name", "result", "success"}, NoError)

\* handleFileOpen: when openFileInEditor returns false the status is 500
\* and the body is {success, filePath, line}
handleFileOpen(rq) ==
    IF rq.body = "malformed" THEN ErrorBody(500, "file_open_error", "file_open_error")
    ELSE IF rq.body = "empty"
    THEN ErrorBody(400, "invalid_request_error", "missing_parameter")
    ELSE IF rq.outcome = "threw" THEN ErrorBody(500, "file_open_error", "file_open_error")
    ELSE JsonResponse(IF rq.outcome = "ok" THEN 200 ELSE 500,
                      {"success", "filePath", "line"}, NoError)

\* handleFileAdd
handleFileAdd(rq) ==
    IF rq.body = "malformed" THEN ErrorBody(500, "file_add_error", "file_add_error")
    ELSE IF rq.body = "empty" THEN ErrorBody(400, "invalid_request", "missing_parameter")
    ELSE IF rq.body = "partial" THEN ErrorBody(400, "invalid_request", "missing_parameter")
    ELSE IF rq.outcome = "threw" THEN ErrorBody(500, "file_add_error", "file_add_error")
    ELSE IF rq.outcome = "ok"
    THEN JsonResponse(200, {"success", "filePath", "message"}, NoError)
    ELSE ErrorBody(400, "file_add_error", "file_add_error")

\* handleWorkspaceSearch
handleWorkspaceSearch(rq) ==
    IF rq.body = "malformed" THEN ErrorBody(500, "search_error", "search_error")
    ELSE IF rq.body = "empty"
    THEN ErrorBody(400, "invalid_request_error", "missing_parameter")
    ELSE IF rq.outcome = "threw" THEN ErrorBody(500, "search_error", "search_error")
    ELSE JsonResponse(200, {"query", "filePattern", "results", "success"}, NoError)

\* handleFileEdit: when editFile replaces nothing the status is 400 and the
\* body is the result of editFile with filePath
handleFileEdit(rq) ==
    IF rq.body = "malformed" THEN ErrorBody(500, "file_edit_error", "file_edit_error")
    ELSE IF rq.body = "empty"
    THEN ErrorBody(400, "invalid_request_error", "missing_parameter")
    ELSE IF rq.body = "partial"
    THEN ErrorBody(400, "invalid_request_error", "missing_parameter")
    ELSE IF rq.outcome = "threw" THEN ErrorBody(500, "file_edit_error", "file_edit_error")
    ELSE JsonResponse(IF rq.outcome = "ok" THEN 200 ELSE 400,
                      {"success", "replacementsMade", "errors", "filePath"}, NoError)

\* handleFileRead
handleFileRead(rq) ==
    IF rq.body = "malformed" THEN ErrorBody(500, "file_read_error", "file_read_error")
    ELSE IF rq.body = "empty"
    THEN ErrorBody(400, "invalid_request_error", "missing_parameter")
    ELSE IF rq.outcome = "threw"
    THEN ErrorBody(500, "file_read_error", "file_read_error")
    ELSE JsonResponse(200, {"filePath", "content", "totalLines", "language", "success"},
                      NoError)

\* the answer to a request no route matches
NotFoundResponse == JsonResponse(404, {"error"}, ErrorString)

\* the request is for the route of `method` and `url`
IsRoute(method, url) ==
    /\ rpc = "received"
    /\ rRequest.method # "OPTIONS"
    /\ rRequest.method = method
    /\ rRequest.url = url

\* the response is written and the listener returns
Answer(response) ==
    /\ rRes' = response
    /\ rpc' = "done"
    /\ UNCHANGED rRequest

RoutesParked ==
    /\ rpc = "parked"
    /\ rRequest = <<>>
    /\ rRes = <<>>

RoutesInit ==
    /\ rpc = "received"
    /\ rRequest \in RouteRequests
    /\ rRes = NoRouteResponse

\* the listener answers an OPTIONS request with an empty 200
OptionsRoute ==
    /\ rpc = "received"
    /\ rRequest.method = "OPTIONS"
    /\ Answer([status |-> 200, keys |-> {}, error |-> NoError, ended |-> TRUE])

ChatCompletionsRoute ==
    /\ IsRoute("POST", "/v1/chat/completions")
    /\ Answer(handleChatCompletions(rRequest))

ModelsRoute ==
    /\ IsRoute("GET", "/v1/models")
    /\ Answer(handleModels(rRequest))

HealthRoute ==
    /\ IsRoute("GET", "/health")
    /\ Answer(handleHealth(rRequest))

ToolsListRoute ==
    /\ IsRoute("GET", "/v1/tools")
    /\ Answer(handleToolsList(rRequest))

ToolInvokeRoute ==
    /\ IsRoute("POST", "/v1/tools/invoke")
    /\ Answer(handleToolInvoke(rRequest))

FileOpenRoute ==
    /\ IsRoute("POST", "/v1/workspace/files/open")
    /\ Answer(handleFileOpen(rRequest))

FileAddRoute ==
    /\ IsRoute("POST", "/v1/workspace/files/add")
    /\ Answer(handleFileAdd(rRequest))

WorkspaceSearchRoute ==
    /\ IsRoute("POST", "/v1/workspace/files/search")
    /\ Answer(handleWorkspaceSearch(rRequest))

FileEditRoute ==
    /\ IsRoute("POST", "/v1/workspace/files/edit")
    /\ Answer(handleFileEdit(rRequest))

FileReadRoute ==
    /\ IsRoute("POST", "/v1/workspace/files/read")
    /\ Answer(handleFileRead(rRequest))

\* the method and url pairs the listener routes
Routed ==
    {<<"POST", "/v1/chat/completions">>, <<"GET", "/v1/models">>, <<"GET", "/health">>,
     <<"GET", "/v1/tools">>, <<"POST", "/v1/tools/invoke">>,
     <<"POST", "/v1/workspace/files/open">>, <<"POST", "/v1/workspace/files/add">>,
     <<"POST", "/v1/workspace/files/search">>, <<"POST", "/v1/workspace/files/edit">>,
     <<"POST", "/v1/workspace/files/read">>}

\* the final else of the listener
NotFoundRoute ==
    /\ rpc = "received"
    /\ rRequest.method # "OPTIONS"
    /\ <<rRequest.method, rRequest.url>> \notin Routed
    /\ Answer(NotFoundResponse)

----------------------------------------------------------------------------
(* The direct tool-invoke endpoint: handleToolInvoke (routes.ts) and        *)
(* invokeTool (handlers/toolHandler.ts). A request body holds tool_name and *)
(* name, each a string, the empty string when absent.                       *)

\* a content part of a tool result that is no LanguageModelTextPart
DataPart == [kind |-> "data", value |-> <<"bin">>, callId |-> 0, name |-> ""]

\* the request bodies explored
InvokeRequests == [tool_name : {"", "x", "y"}, name : {"", "x"}]

\* what vscode.lm.invokeTool can do for a registered tool: return a content
\* list of text and other parts, or throw
InvokeOutcomes ==
    {[threw |-> FALSE, content |-> c] :
        c \in BSeq({TextPart(<<"r1">>), TextPart(<<"r2">>), DataPart}, MaxContent)}
    \cup {[threw |-> TRUE, content |-> <<>>]}

\* requestData.tool_name || requestData.name
ToolNameOf(rd) == IF rd.tool_name # "" THEN rd.tool_name ELSE rd.name

\* a variant of ResultText that joins the values of all parts
ResultTextOfAllParts(content) ==
    Join([i \in 1..Len(content) |-> content[i].value], <<>>)

\* resultParts.join(''): the values of the text parts of result.content
ResultText(content) == Join(textOf(content), <<>>)

\* invokeTool: a name the registry does not hold throws before any
\* invocation; otherwise the tool is invoked, and its result text returned
invokeTool(toolName, outcome) ==
    IF toolName \notin RegisteredTools
    THEN [threw |-> TRUE, invoked |-> <<>>, text |-> <<>>]
    ELSE IF outcome.threw
    THEN [threw |-> TRUE, invoked |-> <<toolName>>, text |-> <<>>]
    ELSE [threw |-> FALSE, invoked |-> <<toolName>>, text |-> ResultText(outcome.content)]

\* the answers of handleToolInvoke
InvokeError(status, type, code) ==
    [status |-> status, errorType |-> type, errorCode |-> code,
     tool_name |-> "", result |-> <<>>, success |-> FALSE, ended |-> TRUE]
InvokeSuccess(toolName, text) ==
    [status |-> 200, errorType |-> "", errorCode |-> "",
     tool_name |-> toolName, result |-> text, success |-> TRUE, ended |-> TRUE]

InvokeParked ==
    /\ ipc = "parked"
    /\ iRequest = <<>>
    /\ iOutcome = <<>>
    /\ iInvoked = <<>>
    /\ iRes = <<>>

InvokeInit ==
    /\ ipc = "received"
    /\ iRequest \in InvokeRequests
    /\ iOutcome \in InvokeOutcomes
    /\ iInvoked = <<>>
    /\ iRes = [status |-> 0, errorType |-> "", errorCode |-> "",
               tool_name |-> "", result |-> <<>>, success |-> FALSE, ended |-> FALSE]

\* handleToolInvoke: no tool name in the body
InvokeWithoutName ==
    /\ ipc = "received"
    /\ ToolNameOf(iRequest) = ""
    /\ iRes' = InvokeError(400, "invalid_request_error", "missing_parameter")
    /\ ipc' = "done"
    /\ UNCHANGED <<iRequest, iOutcome, iInvoked>>

\* handleToolInvoke: invokeTool throws and the catch answers
InvokeToolThrows ==
    /\ ipc = "received"
    /\ ToolNameOf(iRequest) # ""
    /\ LET result == invokeTool(ToolNameOf(iRequest), iOutcome)
       IN  /\ result.threw
           /\ iInvoked' = iInvoked \o result.invoked
    /\ iRes' = InvokeError(500, "tool_invocation_error", "tool_invocation_error")
    /\ ipc' = "done"
    /\ UNCHANGED <<iRequest, iOutcome>>

\* handleToolInvoke: invokeTool returns the result text
InvokeToolReturns ==
    /\ ipc = "received"
    /\ ToolNameOf(iRequest) # ""
    /\ LET result == invokeTool(ToolNameOf(iRequest), iOutcome)
       IN  /\ ~result.threw
           /\ iInvoked' = iInvoked \o result.invoked
           /\ iRes' = InvokeSuccess(ToolNameOf(iRequest), result.text)
    /\ ipc' = "done"
    /\ UNCHANGED <<iRequest, iOutcome>>

----------------------------------------------------------------------------
(* searchWorkspaceCode (handlers/workspaceHandler.ts): one call on any     *)
(* explored workspace and arguments                                        *)

\* the number of matching lines of the explored file with more matches than
\* are listed
ManyMatches == MaxMatchesPerFile + 2

\* the files explored: one that cannot be read, one without a match, one
\* with matches in both cases and blanks to trim, one with more matches
\* than are listed
WorkspaceFiles ==
    {WorkspaceFile("u.ts", FALSE, <<<<"q">>>>),
     WorkspaceFile("n.ts", TRUE, <<<<"other">>>>),
     WorkspaceFile("m.ts", TRUE, <<<<" ", "Q", " ">>, <<"other">>, <<"x", "q">>>>),
     WorkspaceFile("big.ts", TRUE, [i \in 1..ManyMatches |-> <<"q">>])}

\* the arguments explored
SearchArgs ==
    [query : {<<>>, <<"q">>, <<"Q">>, <<"z">>},
     filePattern : {<<>>, <<"*.ts">>},
     maxResults : {1, 2, DefaultMaxResults}]

SearchParked ==
    /\ spc = "parked"
    /\ sWorkspace = <<>>
    /\ sArgs = <<>>
    /\ sResult = <<>>

SearchInit ==
    /\ spc = "call"
    /\ sWorkspace \in {Workspace(files, rejects) :
                         files \in BSeq(WorkspaceFiles, MaxWorkspaceFiles),
                         rejects \in BOOLEAN}
    /\ sArgs \in SearchArgs
    /\ sResult = None

\* the call returns undefined for an empty query
SearchWithoutQuery ==
    /\ spc = "call"
    /\ sArgs.query = <<>>
    /\ sResult' = searchWorkspaceCode(sWorkspace, sArgs.query, sArgs.filePattern,
                                      sArgs.maxResults)
    /\ spc' = "done"
    /\ UNCHANGED <<sWorkspace, sArgs>>

\* the call searches the workspace
SearchRuns ==
    /\ spc = "call"
    /\ sArgs.query # <<>>
    /\ sResult' = searchWorkspaceCode(sWorkspace, sArgs.query, sArgs.filePattern,
                                      sArgs.maxResults)
    /\ spc' = "done"
    /\ UNCHANGED <<sWorkspace, sArgs>>

----------------------------------------------------------------------------
(* editFile (handlers/workspaceHandler.ts): calls on one file. A call reads *)
(* the file, runs its loop over the replacements on the text it read, and   *)
(* writes the text back when a replacement was made; it suspends at the     *)
(* read and at the write, where another call on the same file may run. A    *)
(* text is a sequence of one-character tokens, with "$&" and "$$" the       *)
(* replacement patterns of String.prototype.replace.                        *)

\* the number of characters of the old string an error message quotes
ErrorQuoteLimit == 50

\* String.prototype.indexOf: the first position of `part` in `text`, 0 when
\* there is none (the empty string is found at the start)
IndexOf(text, part) ==
    LET at == {p \in 1..(Len(text) - Len(part) + 1) : SubSeq(text, p, p + Len(part) - 1) = part}
    IN  IF at = {} THEN 0 ELSE CHOOSE p \in at : \A q \in at : p <= q

\* the position of the last occurrence of `part` in `text`
LastIndexOf(text, part) ==
    LET at == {p \in 1..(Len(text) - Len(part) + 1) : SubSeq(text, p, p + Len(part) - 1) = part}
    IN  IF at = {} THEN 0 ELSE CHOOSE p \in at : \A q \in at : p >= q

\* the replacement string of String.prototype.replace with its patterns
\* expanded: $& is the matched text, $$ a dollar sign
RECURSIVE Expand(_, _)
Expand(newString, matched) ==
    IF newString = <<>> THEN <<>>
    ELSE (CASE Head(newString) = "$&" -> matched
            [] Head(newString) = "$$" -> <<"$">>
            [] OTHER -> <<Head(newString)>>)
         \o Expand(Tail(newString), matched)

\* a variant of ReplaceFirst that replaces the last occurrence
ReplaceLast(text, oldString, newString) ==
    LET p == LastIndexOf(text, oldString)
    IN  SubSeq(text, 1, p - 1) \o Expand(newString, oldString)
        \o SubSeq(text, p + Len(oldString), Len(text))

\* textContent.replace(oldString, newString) for a text that includes
\* oldString: the first occurrence is replaced
ReplaceFirst(text, oldString, newString) ==
    LET p == IndexOf(text, oldString)
    IN  SubSeq(text, 1, p - 1) \o Expand(newString, oldString)
        \o SubSeq(text, p + Len(oldString), Len(text))

\* the error pushed for a replacement whose old string is not in the text
NotFoundError(oldString) ==
    <<"Could not find text to replace: ", "<quote>">>
    \o SubSeq(oldString, 1, IF Len(oldString) < ErrorQuoteLimit THEN Len(oldString)
                             ELSE ErrorQuoteLimit)
    \o <<"...", "<quote>">>

Replacement(oldString, newString) == [oldString |-> oldString, newString |-> newString]

\* the replacements explored: of a text that occurs twice, of a text that
\* occurs once, of a text only an earlier replacement brings in, of a text
\* that never occurs, and one whose new string holds a pattern
Replacements ==
    {Replacement(<<"a">>, <<"x">>), Replacement(<<"b">>, <<"y">>),
     Replacement(<<"x">>, <<"b", "b">>), Replacement(<<"c">>, <<"z">>),
     Replacement(<<"b">>, <<"$&", "a">>)}

\* the replacement lists of a call that runs beside another one
CompetingLists == {<<Replacement(<<"b">>, <<"y">>)>>, <<Replacement(<<"a">>, <<>>)>>}

\* the file the calls edit
EditedFile == <<"a", "b", "a">>

\* the two calls explored
Editors == {1, 2}

\* a call of editFile: where it is, its replacement list, its locals
\* textContent, replacementsMade and errors, the number of replacements its
\* loop has gone through, the number of times it wrote the file, and what
\* it returned
Editor(pc0, replacements) ==
    [pc |-> pc0, replacements |-> replacements, textContent |-> <<>>, done |-> 0,
     replacementsMade |-> 0, errors |-> <<>>, writes |-> 0,
     result |-> [success |-> FALSE, replacementsMade |-> 0, errors |-> <<>>]]

EditParked ==
    /\ eInitial = <<>>
    /\ eFile = <<>>
    /\ editors = <<>>

\* one call with any explored replacement list, alone or beside a second
\* call
EditInit ==
    /\ eInitial = EditedFile
    /\ eFile = EditedFile
    /\ \E first \in BSeq(Replacements, MaxReplacements) :
         \/ editors = <<Editor("read", first), Editor("absent", <<>>)>>
         \/ \E second \in CompetingLists :
               editors = <<Editor("read", first), Editor("read", second)>>

\* vscode.workspace.fs.readFile resolves: the call takes the content of the
\* file as its text
EditRead(e) ==
    /\ editors[e].pc = "read"
    /\ editors' = [editors EXCEPT ![e].textContent = eFile, ![e].pc = "loop"]
    /\ UNCHANGED <<eInitial, eFile>>

\* one iteration of the loop over the replacements
EditStep(e) ==
    /\ editors[e].pc = "loop"
    /\ editors[e].done < Len(editors[e].replacements)
    /\ LET r == editors[e].replacements[editors[e].done + 1]
           text == editors[e].textContent
       IN  IF IndexOf(text, r.oldString) = 0
           THEN editors' = [editors EXCEPT ![e].errors = Append(@, NotFoundError(r.oldString)),
                                           ![e].done = @ + 1]
           ELSE editors' = [editors EXCEPT
                              ![e].textContent = ReplaceFirst(text, r.oldString, r.newString),
                              ![e].replacementsMade = @ + 1,
                              ![e].done = @ + 1]
    /\ UNCHANGED <<eInitial, eFile>>

\* what editFile returns
EditResult(editor) ==
    [success |-> editor.replacementsMade > 0,
     replacementsMade |-> editor.replacementsMade,
     errors |-> editor.errors]

\* after the loop, with a replacement made: the text is written back and
\* the call returns
EditWrite(e) ==
    /\ editors[e].pc = "loop"
    /\ editors[e].done = Len(editors[e].replacements)
    /\ editors[e].replacementsMade > 0
    /\ eFile' = editors[e].textContent
    /\ editors' = [editors EXCEPT ![e].writes = @ + 1, ![e].pc = "returned",
                                  ![e].result = EditResult(editors[e])]
    /\ UNCHANGED eInitial

\* after the loop, without a replacement made: the call returns without
\* writing
EditReturn(e) ==
    /\ editors[e].pc = "loop"
    /\ editors[e].done = Len(editors[e].replacements)
    /\ editors[e].replacementsMade = 0
    /\ editors' = [editors EXCEPT ![e].pc = "returned", ![e].result = EditResult(editors[e])]
    /\ UNCHANGED <<eInitial, eFile>>

----------------------------------------------------------------------------
(* The route registry (server/routeRegistry.ts): registerRoute,            *)
(* registerRoutes and dispatch                                              *)

\* the number of definitions registered in one behaviour
MaxRegistrations == 2

\* String.prototype.toUpperCase on the method names explored
toUpperCase(method) ==
    CASE method = "get" -> "GET"
      [] method = "post" -> "POST"
      [] OTHER -> method

\* buildKey: the upper-cased method and the path, which the code joins by a
\* space (no explored method holds a space, so the pair stands for the string)
buildKey(method, routePath) == <<toUpperCase(method), routePath>>

\* a URL is the sequence of its path segments, followed by "?" and the
\* query if it has one; "//" begins an authority. The part before the query:
BeforeQuery(rawUrl) ==
    LET marks == {i \in 1..Len(rawUrl) : rawUrl[i] \in {"?", "#"}}
    IN  IF marks = {} THEN rawUrl
        ELSE SubSeq(rawUrl, 1, (CHOOSE i \in marks : \A j \in marks : i <= j) - 1)

\* the path of a parsed URL: "." segments are dropped and ".." segments
\* take the segment before them away
RECURSIVE RemoveDots(_, _)
RemoveDots(segments, kept) ==
    IF segments = <<>> THEN kept
    ELSE IF Head(segments) = "/." THEN RemoveDots(Tail(segments), kept)
    ELSE IF Head(segments) = "/.."
         THEN RemoveDots(Tail(segments),
                         IF kept = <<>> THEN kept ELSE SubSeq(kept, 1, Len(kept) - 1))
    ELSE RemoveDots(Tail(segments), Append(kept, Head(segments)))

\* getRequestPath: '' for an absent or empty url, else the pathname of
\* new URL(rawUrl, 'http://localhost'), which throws for a url that names an
\* empty authority
getRequestPath(rawUrl) ==
    IF rawUrl = <<>> THEN [threw |-> FALSE, path |-> <<>>]
    ELSE IF rawUrl[1] = "//" /\ (Len(rawUrl) = 1 \/ rawUrl[2] \in {"?", "#"})
         THEN [threw |-> TRUE, path |-> <<>>]
    ELSE [threw |-> FALSE, path |-> RemoveDots(BeforeQuery(rawUrl), <<>>)]

\* an HttpRouteDefinition; a handler is named by a number
RouteDefinition(method, path, handler) == [method |-> method, path |-> path, handler |-> handler]

\* the definitions explored: the methods in both cases, two paths, two handlers
RouteDefinitions ==
    {RouteDefinition(method, path, handler) :
        method \in {"GET", "get", "POST"},
        path \in {<<"/api", "/tags">>, <<"/api", "/ps">>},
        handler \in {1, 2}}

\* the requests explored: req.method (absent is "") and req.url (absent is
\* the empty url), with a query string, with a "." segment, and the url "//"
DispatchRequests ==
    [method : {"GET", "get", "POST", ""},
     url : {<<>>, <<"/api", "/tags">>, <<"/api", "/tags", "?", "a=1">>,
            <<"/api", "/.", "/tags">>, <<"/api", "/ps">>, <<"//">>}]

\* this.routes.set(key, definition.handler)
registerRoute(map, definition) ==
    LET key == buildKey(definition.method, definition.path)
    IN  [k \in DOMAIN map \cup {key} |-> IF k = key THEN definition.handler ELSE map[k]]

\* registerRoutes: registerRoute for each definition of the list, in order
RECURSIVE registerRoutes(_, _)
registerRoutes(map, definitions) ==
    IF definitions = <<>> THEN map
    ELSE registerRoutes(registerRoute(map, Head(definitions)), Tail(definitions))

\* the map without a key
NoRoutes == [k \in {} |-> 0]

NoDispatchRequest == [method |-> "", url |-> <<>>]

RegistryParked ==
    /\ kpc = "parked"
    /\ routes = NoRoutes
    /\ registered = <<>>
    /\ kRequest = NoDispatchRequest
    /\ kSeen = 0
    /\ kCalls = <<>>
    /\ kRes = <<>>
    /\ kResult = "none"

\* a new registry, before any plugin registered its routes
RegistryInit ==
    /\ kpc = "idle"
    /\ routes = NoRoutes
    /\ registered = <<>>
    /\ kRequest = NoDispatchRequest
    /\ kSeen = 0
    /\ kCalls = <<>>
    /\ kRes = <<>>
    /\ kResult = "none"

\* a plugin registers a list of routes; this may happen before a dispatch,
\* while dispatch awaits the handler, and after it
RegisterRoutes ==
    /\ kpc \in {"idle", "awaiting", "returned"}
    /\ \E definitions \in BSeq(RouteDefinitions, MaxRegistrations - Len(registered)) :
          /\ Len(definitions) > 0
          /\ routes' = registerRoutes(routes, definitions)
          /\ registered' = registered \o definitions
    /\ UNCHANGED <<kpc, kRequest, kSeen, kCalls, kRes, kResult>>

\* dispatch up to its await: the key of the request is built (new URL may
\* throw), the handler is looked up, and either false is returned or the
\* handler is called
DispatchCall ==
    /\ kpc = "idle"
    /\ \E request \in DispatchRequests :
          LET method == toUpperCase(request.method)
              requestPath == getRequestPath(request.url)
              key == buildKey(method, requestPath.path)
          IN  /\ kRequest' = request
              /\ kSeen' = Len(registered)
              /\ IF requestPath.threw
                 THEN /\ kResult' = "threw"
                      /\ kpc' = "returned"
                      /\ kCalls' = kCalls
                 ELSE IF key \notin DOMAIN routes
                 THEN /\ kResult' = "false"
                      /\ kpc' = "returned"
                      /\ kCalls' = kCalls
                 ELSE /\ kResult' = kResult
                      /\ kpc' = "awaiting"
                      /\ kCalls' = Append(kCalls, routes[key])
    /\ UNCHANGED <<routes, registered, kRes>>

\* the awaited handler wrote its response and returned: dispatch returns true
HandlerReturns ==
    /\ kpc = "awaiting"
    /\ kRes' = Append(kRes, kCalls[Len(kCalls)])
    /\ kResult' = "true"
    /\ kpc' = "returned"
    /\ UNCHANGED <<routes, registered, kRequest, kSeen, kCalls>>

\* the awaited handler threw or rejected: so does dispatch
HandlerThrows ==
    /\ kpc = "awaiting"
    /\ kResult' = "threw"
    /\ kpc' = "returned"
    /\ UNCHANGED <<routes, registered, kRequest, kSeen, kCalls, kRes>>

----------------------------------------------------------------------------
(* Specifications *)

Init == ChatInit /\ MsgParked /\ ToolParked /\ SuggestParked /\ ServerParked /\ HandlersParked /\ RoutesParked
    /\ InvokeParked
    /\ SearchParked
    /\ EditParked
    /\ RegistryParked

Next ==
    \/ ModelNotAvailable /\ UNCHANGED <<msgVars, toolVars, suggestVars, serverVars, handlerVars, routeVars, invokeVars, searchVars, editVars, registryVars>>
    \/ SelectModelFails /\ UNCHANGED <<msgVars, toolVars, suggestVars, serverVars, handlerVars, routeVars, invokeVars, searchVars, editVars, registryVars>>
    \/ SelectModel /\ UNCHANGED <<msgVars, toolVars, suggestVars, serverVars, handlerVars, routeVars, invokeVars, searchVars, editVars, registryVars>>
    \/ RunFileOperation /\ UNCHANGED <<msgVars, toolVars, suggestVars, serverVars, handlerVars, routeVars, invokeVars, searchVars, editVars, registryVars>>
    \/ PrepareRequest /\ UNCHANGED <<msgVars, toolVars, suggestVars, serverVars, handlerVars, routeVars, invokeVars, searchVars, editVars, registryVars>>
    \/ SendRequestFails /\ UNCHANGED <<msgVars, toolVars, suggestVars, serverVars, handlerVars, routeVars, invokeVars, searchVars, editVars, registryVars>>
    \/ SendRequestReturns /\ UNCHANGED <<msgVars, toolVars, suggestVars, serverVars, handlerVars, routeVars, invokeVars, searchVars, editVars, registryVars>>
    \/ StreamFragment /\ UNCHANGED <<msgVars, toolVars, suggestVars, serverVars, handlerVars, routeVars, invokeVars, searchVars, editVars, registryVars>>
    \/ StreamFinish /\ UNCHANGED <<msgVars, toolVars, suggestVars, serverVars, handlerVars, routeVars, invokeVars, searchVars, editVars, registryVars>>
    \/ StreamFails /\ UNCHANGED <<msgVars, toolVars, suggestVars, serverVars, handlerVars, routeVars, invokeVars, searchVars, editVars, registryVars>>
    \/ DrainFails /\ UNCHANGED <<msgVars, toolVars, suggestVars, serverVars, handlerVars, routeVars, invokeVars, searchVars, editVars, registryVars>>
    \/ DrainResponse /\ UNCHANGED <<msgVars, toolVars, suggestVars, serverVars, handlerVars, routeVars, invokeVars, searchVars, editVars, registryVars>>
    \/ (\E i \in 1..MaxParts : InvokeStart(i)) /\ UNCHANGED <<msgVars, toolVars, suggestVars, serverVars, handlerVars, routeVars, invokeVars, searchVars, editVars, registryVars>>
    \/ (\E i \in 1..MaxParts : InvokeComplete(i)) /\ UNCHANGED <<msgVars, toolVars, suggestVars, serverVars, handlerVars, routeVars, invokeVars, searchVars, editVars, registryVars>>
    \/ FollowUpFails /\ UNCHANGED <<msgVars, toolVars, suggestVars, serverVars, handlerVars, routeVars, invokeVars, searchVars, editVars, registryVars>>
    \/ FollowUpReturns /\ UNCHANGED <<msgVars, toolVars, suggestVars, serverVars, handlerVars, routeVars, invokeVars, searchVars, editVars, registryVars>>
    \/ DrainFollowUpFails /\ UNCHANGED <<msgVars, toolVars, suggestVars, serverVars, handlerVars, routeVars, invokeVars, searchVars, editVars, registryVars>>
    \/ DrainFollowUp /\ UNCHANGED <<msgVars, toolVars, suggestVars, serverVars, handlerVars, routeVars, invokeVars, searchVars, editVars, registryVars>>
    \/ Respond /\ UNCHANGED <<msgVars, toolVars, suggestVars, serverVars, handlerVars, routeVars, invokeVars, searchVars, editVars, registryVars>>

\* one chat-completion request
Spec == Init /\ [][Next]_vars

MsgSpecInit == MsgInit /\ ChatParked /\ ToolParked /\ SuggestParked /\ ServerParked /\ HandlersParked /\ RoutesParked
    /\ InvokeParked
    /\ SearchParked
    /\ EditParked
    /\ RegistryParked

MsgNext == PrepareCall /\ UNCHANGED <<chatVars, toolVars, suggestVars, serverVars, handlerVars, routeVars, invokeVars, searchVars, editVars, registryVars>>

\* one call of prepareChatMessages
SpecMsg == MsgSpecInit /\ [][MsgNext]_vars

ToolSpecInit == ToolInit /\ ChatParked /\ MsgParked /\ SuggestParked /\ ServerParked /\ HandlersParked /\ RoutesParked
    /\ InvokeParked
    /\ SearchParked
    /\ EditParked
    /\ RegistryParked

ToolNext == PrepareToolsCall /\ UNCHANGED <<chatVars, msgVars, suggestVars, serverVars, handlerVars, routeVars, invokeVars, searchVars, editVars, registryVars>>

\* one call of prepareToolsForRequest followed by mapToolChoice
SpecTools == ToolSpecInit /\ [][ToolNext]_vars

SuggestSpecInit == SuggestInit /\ ChatParked /\ MsgParked /\ ToolParked /\ ServerParked /\ HandlersParked /\ RoutesParked
    /\ InvokeParked
    /\ SearchParked
    /\ EditParked
    /\ RegistryParked

SuggestNext ==
    \/ GenerateCall /\ UNCHANGED <<chatVars, msgVars, toolVars, serverVars, handlerVars, routeVars, invokeVars, searchVars, editVars, registryVars>>
    \/ BuildResponse /\ UNCHANGED <<chatVars, msgVars, toolVars, serverVars, handlerVars, routeVars, invokeVars, searchVars, editVars, registryVars>>

\* one call of generateNextActions
SpecSuggest == SuggestSpecInit /\ [][SuggestNext]_vars

ServerSpecInit == ServerInit /\ ChatParked /\ MsgParked /\ ToolParked /\ SuggestParked /\ HandlersParked /\ RoutesParked
    /\ InvokeParked
    /\ SearchParked
    /\ EditParked
    /\ RegistryParked

ServerNext ==
    \/ StartCommand /\ UNCHANGED <<chatVars, msgVars, toolVars, suggestVars, handlerVars, routeVars, invokeVars, searchVars, editVars, registryVars>>
    \/ StopCommand /\ UNCHANGED <<chatVars, msgVars, toolVars, suggestVars, handlerVars, routeVars, invokeVars, searchVars, editVars, registryVars>>
    \/ RestartCommand /\ UNCHANGED <<chatVars, msgVars, toolVars, suggestVars, handlerVars, routeVars, invokeVars, searchVars, editVars, registryVars>>
    \/ (\E i \in 1..MaxCommands : ListeningCallback(i))
          /\ UNCHANGED <<chatVars, msgVars, toolVars, suggestVars, handlerVars, routeVars, invokeVars, searchVars, editVars, registryVars>>
    \/ (\E i \in 1..MaxCommands : ErrorCallback(i))
          /\ UNCHANGED <<chatVars, msgVars, toolVars, suggestVars, handlerVars, routeVars, invokeVars, searchVars, editVars, registryVars>>
    \/ (\E i \in 1..MaxCommands : ListenDropped(i))
          /\ UNCHANGED <<chatVars, msgVars, toolVars, suggestVars, handlerVars, routeVars, invokeVars, searchVars, editVars, registryVars>>
    \/ (\E i \in 1..MaxCommands : CloseCallback(i))
          /\ UNCHANGED <<chatVars, msgVars, toolVars, suggestVars, handlerVars, routeVars, invokeVars, searchVars, editVars, registryVars>>

\* the server commands of the extension and the callbacks of its instances
SpecServer == ServerSpecInit /\ [][ServerNext]_vars

HandlersSpecInit ==
    HandlersInit /\ ChatParked /\ MsgParked /\ ToolParked /\ SuggestParked /\ ServerParked
    /\ RoutesParked
    /\ InvokeParked
    /\ SearchParked
    /\ EditParked
    /\ RegistryParked

HandlersNext ==
    \/ (\E r \in Handlers : HSelectModel(r))
          /\ UNCHANGED <<chatVars, msgVars, toolVars, suggestVars, serverVars, routeVars, invokeVars, searchVars, editVars, registryVars>>
    \/ (\E r \in Handlers : HPrepare(r))
          /\ UNCHANGED <<chatVars, msgVars, toolVars, suggestVars, serverVars, routeVars, invokeVars, searchVars, editVars, registryVars>>
    \/ (\E r \in Handlers : HSend(r))
          /\ UNCHANGED <<chatVars, msgVars, toolVars, suggestVars, serverVars, routeVars, invokeVars, searchVars, editVars, registryVars>>
    \/ (\E r \in Handlers : HStreamFragment(r))
          /\ UNCHANGED <<chatVars, msgVars, toolVars, suggestVars, serverVars, routeVars, invokeVars, searchVars, editVars, registryVars>>
    \/ (\E r \in Handlers : HStreamFinish(r))
          /\ UNCHANGED <<chatVars, msgVars, toolVars, suggestVars, serverVars, routeVars, invokeVars, searchVars, editVars, registryVars>>
    \/ (\E r \in Handlers : HDrainPart(r))
          /\ UNCHANGED <<chatVars, msgVars, toolVars, suggestVars, serverVars, routeVars, invokeVars, searchVars, editVars, registryVars>>
    \/ (\E r \in Handlers : HDrainEnd(r))
          /\ UNCHANGED <<chatVars, msgVars, toolVars, suggestVars, serverVars, routeVars, invokeVars, searchVars, editVars, registryVars>>
    \/ (\E r \in Handlers : HInvoke(r))
          /\ UNCHANGED <<chatVars, msgVars, toolVars, suggestVars, serverVars, routeVars, invokeVars, searchVars, editVars, registryVars>>
    \/ (\E r \in Handlers : HFollowUp(r))
          /\ UNCHANGED <<chatVars, msgVars, toolVars, suggestVars, serverVars, routeVars, invokeVars, searchVars, editVars, registryVars>>
    \/ (\E r \in Handlers : HFollowUpFragment(r))
          /\ UNCHANGED <<chatVars, msgVars, toolVars, suggestVars, serverVars, routeVars, invokeVars, searchVars, editVars, registryVars>>
    \/ (\E r \in Handlers : HFollowUpEnd(r))
          /\ UNCHANGED <<chatVars, msgVars, toolVars, suggestVars, serverVars, routeVars, invokeVars, searchVars, editVars, registryVars>>
    \/ (\E r \in Handlers : HRespond(r))
          /\ UNCHANGED <<chatVars, msgVars, toolVars, suggestVars, serverVars, routeVars, invokeVars, searchVars, editVars, registryVars>>

\* the calls of handleChatCompletions for the requests in flight, interleaved
\* at their awaits
SpecHandlers == HandlersSpecInit /\ [][HandlersNext]_vars

RoutesSpecInit ==
    RoutesInit /\ ChatParked /\ MsgParked /\ ToolParked /\ SuggestParked /\ ServerParked
    /\ HandlersParked
    /\ InvokeParked
    /\ SearchParked
    /\ EditParked
    /\ RegistryParked

RoutesNext ==
    \/ OptionsRoute /\ UNCHANGED <<chatVars, msgVars, toolVars, suggestVars, serverVars, handlerVars, invokeVars, searchVars, editVars, registryVars>>
    \/ ChatCompletionsRoute /\ UNCHANGED <<chatVars, msgVars, toolVars, suggestVars, serverVars, handlerVars, invokeVars, searchVars, editVars, registryVars>>
    \/ ModelsRoute /\ UNCHANGED <<chatVars, msgVars, toolVars, suggestVars, serverVars, handlerVars, invokeVars, searchVars, editVars, registryVars>>
    \/ HealthRoute /\ UNCHANGED <<chatVars, msgVars, toolVars, suggestVars, serverVars, handlerVars, invokeVars, searchVars, editVars, registryVars>>
    \/ ToolsListRoute /\ UNCHANGED <<chatVars, msgVars, toolVars, suggestVars, serverVars, handlerVars, invokeVars, searchVars, editVars, registryVars>>
    \/ ToolInvokeRoute /\ UNCHANGED <<chatVars, msgVars, toolVars, suggestVars, serverVars, handlerVars, invokeVars, searchVars, editVars, registryVars>>
    \/ FileOpenRoute /\ UNCHANGED <<chatVars, msgVars, toolVars, suggestVars, serverVars, handlerVars, invokeVars, searchVars, editVars, registryVars>>
    \/ FileAddRoute /\ UNCHANGED <<chatVars, msgVars, toolVars, suggestVars, serverVars, handlerVars, invokeVars, searchVars, editVars, registryVars>>
    \/ WorkspaceSearchRoute /\ UNCHANGED <<chatVars, msgVars, toolVars, suggestVars, serverVars, handlerVars, invokeVars, searchVars, editVars, registryVars>>
    \/ FileEditRoute /\ UNCHANGED <<chatVars, msgVars, toolVars, suggestVars, serverVars, handlerVars, invokeVars, searchVars, editVars, registryVars>>
    \/ FileReadRoute /\ UNCHANGED <<chatVars, msgVars, toolVars, suggestVars, serverVars, handlerVars, invokeVars, searchVars, editVars, registryVars>>
    \/ NotFoundRoute /\ UNCHANGED <<chatVars, msgVars, toolVars, suggestVars, serverVars, handlerVars, invokeVars, searchVars, editVars, registryVars>>

\* one HTTP request through the request listener
SpecRoutes == RoutesSpecInit /\ [][RoutesNext]_vars

InvokeSpecInit ==
    InvokeInit /\ ChatParked /\ MsgParked /\ ToolParked /\ SuggestParked /\ ServerParked
    /\ HandlersParked /\ RoutesParked
    /\ SearchParked
    /\ EditParked
    /\ RegistryParked

InvokeNext ==
    \/ InvokeWithoutName /\ UNCHANGED <<chatVars, msgVars, toolVars, suggestVars, serverVars, handlerVars, routeVars, searchVars, editVars, registryVars>>
    \/ InvokeToolThrows /\ UNCHANGED <<chatVars, msgVars, toolVars, suggestVars, serverVars, handlerVars, routeVars, searchVars, editVars, registryVars>>
    \/ InvokeToolReturns /\ UNCHANGED <<chatVars, msgVars, toolVars, suggestVars, serverVars, handlerVars, routeVars, searchVars, editVars, registryVars>>

\* one request to the direct tool-invoke endpoint
SpecInvoke == InvokeSpecInit /\ [][InvokeNext]_vars

SearchSpecInit ==
    /\ SearchInit
    /\ ChatParked /\ MsgParked /\ ToolParked /\ SuggestParked /\ ServerParked
    /\ HandlersParked /\ RoutesParked /\ InvokeParked
    /\ EditParked
    /\ RegistryParked

SearchNext ==
    \/ SearchWithoutQuery /\ UNCHANGED <<msgVars, toolVars, suggestVars, serverVars, handlerVars, routeVars, invokeVars, chatVars, editVars, registryVars>>
    \/ SearchRuns /\ UNCHANGED <<msgVars, toolVars, suggestVars, serverVars, handlerVars, routeVars, invokeVars, chatVars, editVars, registryVars>>

SpecSearch == SearchSpecInit /\ [][SearchNext]_vars

EditSpecInit ==
    /\ EditInit
    /\ ChatParked /\ MsgParked /\ ToolParked /\ SuggestParked /\ ServerParked
    /\ HandlersParked /\ RoutesParked /\ InvokeParked /\ SearchParked
    /\ RegistryParked

EditNext ==
    \/ (\E e \in Editors : EditRead(e))
          /\ UNCHANGED <<msgVars, toolVars, suggestVars, serverVars, handlerVars, routeVars, invokeVars, searchVars, chatVars, registryVars>>
    \/ (\E e \in Editors : EditStep(e))
          /\ UNCHANGED <<msgVars, toolVars, suggestVars, serverVars, handlerVars, routeVars, invokeVars, searchVars, chatVars, registryVars>>
    \/ (\E e \in Editors : EditWrite(e))
          /\ UNCHANGED <<msgVars, toolVars, suggestVars, serverVars, handlerVars, routeVars, invokeVars, searchVars, chatVars, registryVars>>
    \/ (\E e \in Editors : EditReturn(e))
          /\ UNCHANGED <<msgVars, toolVars, suggestVars, serverVars, handlerVars, routeVars, invokeVars, searchVars, chatVars, registryVars>>

\* calls of editFile on one file
SpecEdit == EditSpecInit /\ [][EditNext]_vars

RegistrySpecInit ==
    /\ RegistryInit
    /\ ChatParked /\ MsgParked /\ ToolParked /\ SuggestParked /\ ServerParked
    /\ HandlersParked /\ RoutesParked /\ InvokeParked /\ SearchParked /\ EditParked

RegistryNext ==
    \/ RegisterRoutes /\ UNCHANGED <<msgVars, toolVars, suggestVars, serverVars, handlerVars, routeVars, invokeVars, searchVars, chatVars, editVars>>
    \/ DispatchCall /\ UNCHANGED <<msgVars, toolVars, suggestVars, serverVars, handlerVars, routeVars, invokeVars, searchVars, chatVars, editVars>>
    \/ HandlerReturns /\ UNCHANGED <<msgVars, toolVars, suggestVars, serverVars, handlerVars, routeVars, invokeVars, searchVars, chatVars, editVars>>
    \/ HandlerThrows /\ UNCHANGED <<msgVars, toolVars, suggestVars, serverVars, handlerVars, routeVars, invokeVars, searchVars, chatVars, editVars>>

\* one registry: registrations and one dispatch
SpecRegistry == RegistrySpecInit /\ [][RegistryNext]_vars

----------------------------------------------------------------------------
(* Claims about prepareChatMessages, checked under SpecMsg *)

\* the message begins with the fixed header of the system instructions
HasSystemHeader(m) == Len(m.content) > 0 /\ m.content[1] = "System Instructions:"

\* the message was converted from a turn of the request's conversation
IsConversational(m) == m.from = "conversation"

\* the positions of the returned list that hold a context message
ContextPositions == {i \in 1..Len(chatMessages) : ~IsConversational(chatMessages[i])}

\* the positions of the returned list that hold a converted turn
ConversationPositions == {i \in 1..Len(chatMessages) : IsConversational(chatMessages[i])}

\* C7: in the list prepareChatMessages returns, every context message comes
\* before every message converted from a user or assistant turn, and at
\* most one message is the combined system-instructions message.
C7_ContextBeforeConversation ==
    mpc = "done" =>
        /\ \A i \in ContextPositions : \A j \in ConversationPositions : i < j
        /\ Cardinality({i \in 1..Len(chatMessages) : HasSystemHeader(chatMessages[i])}) <= 1

\* C7 witness: a request with two system entries, one of them after a user
\* turn, with requested files and a code search, has been assembled.
C7_Witness ==
    /\ mpc = "done"
    /\ Len(systemMessagesOf(options.messages)) = 2
    /\ Len(options.messages) = 3
    /\ options.messages[1].role = "user"
    /\ \E i \in ContextPositions : chatMessages[i].from = "files"
    /\ \E i \in ContextPositions : chatMessages[i].from = "search"
    /\ ConversationPositions # {}

\* the contents of the system entries of the request, in request order
SystemContents ==
    LET positions == {i \in 1..Len(options.messages) : options.messages[i].role = "system"}
        \* the k-th smallest position
        Nth(k) == CHOOSE i \in positions : Cardinality({j \in positions : j < i}) = k - 1
    IN  [k \in 1..Cardinality(positions) |-> options.messages[Nth(k)].content]

\* strings separated by blank lines, built from the left
RECURSIVE BlankLineSeparated(_)
BlankLineSeparated(strs) ==
    IF Len(strs) = 0 THEN <<>>
    ELSE IF Len(strs) = 1 THEN strs[1]
    ELSE BlankLineSeparated(SubSeq(strs, 1, Len(strs) - 1)) \o <<"\n", "\n">> \o strs[Len(strs)]

\* C8: with k >= 1 system entries s1..sk, anywhere in the conversation, the
\* first returned message is a user-role message equal to the header
\* `System Instructions:`, a newline, and s1..sk in request order separated
\* by blank lines, and no other message carries the header; with k = 0 no
\* message carries the header.
C8_CombinedSystemMessage ==
    mpc = "done" =>
        IF Len(SystemContents) >= 1
        THEN /\ Len(chatMessages) >= 1
             /\ chatMessages[1].role = "user"
             /\ chatMessages[1].content =
                   <<"System Instructions:", "\n">> \o BlankLineSeparated(SystemContents)
             /\ \A i \in 2..Len(chatMessages) : ~HasSystemHeader(chatMessages[i])
        ELSE \A i \in 1..Len(chatMessages) : ~HasSystemHeader(chatMessages[i])

\* C8 witness: three system entries, the combined message holds all three.
C8_Witness ==
    /\ mpc = "done"
    /\ Len(options.messages) = 3
    /\ \A i \in 1..3 : options.messages[i].role = "system"
    /\ chatMessages[1].content =
          <<"System Instructions:", "\n", "m1", "\n", "\n", "m2", "\n", "\n", "m3">>

\* the rank of a context message in the fixed construction order
ContextRank(from) ==
    CASE from = "system" -> 1
      [] from = "format" -> 2
      [] from = "workspace" -> 3
      [] from = "files" -> 4
      [] from = "search" -> 5
      [] OTHER -> 6

\* the source of a context message is present and non-empty in the options
SourcePresent(from) ==
    CASE from = "system" -> \E i \in 1..Len(options.messages) : options.messages[i].role = "system"
      [] from = "format" ->
            /\ options.responseFormat.some
            /\ \/ options.responseFormat.val.type = "json_object"
               \/ /\ options.responseFormat.val.type = "json_schema"
                  /\ options.responseFormat.val.json_schema.some
      [] from = "workspace" -> options.includeWorkspaceContext
      [] from = "files" -> options.fileReads.some /\ options.fileReads.val # <<>>
      [] from = "search" -> options.codeSearch.some /\ options.codeSearch.val.query # <<>>
      [] OTHER -> FALSE

\* C9: the context messages of the returned list are in the order system
\* instructions, response-format instruction, workspace context, requested
\* files, code-search results, each at most once, and each only if its
\* source is present and non-empty; a response format of an unknown type,
\* or json_schema without a schema, emits no instruction.
C9_ContextOrder ==
    mpc = "done" =>
        /\ \A i, j \in ContextPositions :
              i < j => ContextRank(chatMessages[i].from) < ContextRank(chatMessages[j].from)
        /\ \A i \in ContextPositions : SourcePresent(chatMessages[i].from)

\* C9 witness: all five context messages are present in a returned list.
C9_Witness ==
    /\ mpc = "done"
    /\ Len(chatMessages) >= 5
    /\ \A r \in 1..5 : ContextRank(chatMessages[r].from) = r

\* the non-system entries of the request, in request order
NonSystemEntries == SelectSeq(options.messages, LAMBDA m : m.role # "system")

\* the converted turns of the returned list, in list order
ConvertedTurns == SelectSeq(chatMessages, IsConversational)

\* C10: every non-system entry of the request is converted to exactly one
\* provider message, in request order: the converted turns are as many as
\* the non-system entries and the i-th one carries the i-th entry's content.
C10_OneToOneConversion ==
    mpc = "done" =>
        /\ Len(ConvertedTurns) = Len(NonSystemEntries)
        /\ \A i \in 1..Len(ConvertedTurns) :
              i <= Len(NonSystemEntries) => ConvertedTurns[i].content = NonSystemEntries[i].content

----------------------------------------------------------------------------
(* Claims about one chat-completion request, checked under Spec *)

\* the tool-call parts of a part stream, in stream order
RECURSIVE CallsInStreamOrder(_)
CallsInStreamOrder(parts) ==
    IF parts = <<>> THEN <<>>
    ELSE CallsInStreamOrder(SubSeq(parts, 1, Len(parts) - 1))
         \o (IF parts[Len(parts)].kind = "toolCall" THEN <<parts[Len(parts)]>> ELSE <<>>)

\* the text of a part stream: the values of its text parts, concatenated
RECURSIVE TextInStreamOrder(_)
TextInStreamOrder(parts) ==
    IF parts = <<>> THEN <<>>
    ELSE TextInStreamOrder(SubSeq(parts, 1, Len(parts) - 1))
         \o (IF parts[Len(parts)].kind = "text" THEN parts[Len(parts)].value ELSE <<>>)

\* the first response has been drained on the non-streaming path
FirstResponseDrained ==
    \/ pc \in {"invoke", "drainFollowUp", "respond"}
    \/ pc = "done" /\ res.status = 200 /\ ~stream
    \/ pc = "done" /\ Len(requestsSent) = 2

\* C1: when the request's tools list is non-empty, the effective stream flag
\* is false at every model call whatever the caller's flag, the response is
\* never an event stream and a 200 answer is a JSON chat.completion, the
\* forced downgrade is logged, and an error response comes only from a
\* missing model, a failed model selection or a failed model call, never
\* from the downgrade.
C1_ToolsForceNonStreaming ==
    Len(requestData.tools) > 0 =>
        /\ stream = FALSE
        /\ pc # "stream"
        /\ res.contentType # "text/event-stream"
        /\ res.status = 200 => res.contentType = "application/json" /\ res.object = "chat.completion"
        /\ (requestData.stream /\ (pc \notin {"start", "done"} \/ Len(requestsSent) > 0))
              => \E k \in 1..Len(warnings) : warnings[k] = ForcedWarning
        /\ res.object = "error" =>
              \/ res.status = 503 /\ ~modelAvailable
              \/ res.status = 500 /\ thrown \in {"selectModels", "model"}

\* C1 witness: a request with stream true and tools was answered 200 with a
\* chat.completion after the warning was written.
C1_Witness ==
    /\ pc = "done"
    /\ requestData.stream
    /\ Len(requestData.tools) > 0
    /\ res.status = 200
    /\ res.object = "chat.completion"
    /\ warnings = <<ForcedWarning>>

\* C2: on the non-streaming path, when the first response holds a tool call,
\* the tool round runs: the synthetic assistant turn carries exactly the
\* tool-call parts of the first response in stream order, a follow-up
\* request is made, and the returned text is the drained text of the
\* follow-up response only, without the text parts of the first response.
C2_ToolRoundReturnsFollowUpText ==
    (FirstResponseDrained /\ CallsInStreamOrder(chatResponse) # <<>>) =>
        /\ assistantToolCallMessage.some
        /\ assistantToolCallMessage.val.role = "assistant"
        /\ assistantToolCallMessage.val.content = CallsInStreamOrder(chatResponse)
        /\ pc = "respond" =>
              /\ Len(requestsSent) = 2
              /\ fullText = TextInStreamOrder(followUpResponse)
        /\ (pc = "done" /\ res.status = 200) =>
              /\ Len(requestsSent) = 2
              /\ res.content = TextInStreamOrder(followUpResponse)

\* C2 witness: the first response was text a, a tool call, text b; the
\* follow-up response was text c; the caller got c.
C2_Witness ==
    /\ pc = "done"
    /\ chatResponse = <<TextPart(<<"a">>), ToolCallPart(1, "x"), TextPart(<<"b">>)>>
    /\ followUpResponse = <<TextPart(<<"c">>)>>
    /\ assistantToolCallMessage.val.content = <<ToolCallPart(1, "x")>>
    /\ res.status = 200
    /\ res.content = <<"c">>

\* C3: the tool invocations of a round are started in call order, and the
\* invocation of a call starts only after the invocation of the call before
\* it has completed, by success or by failure: at most one is in flight.
C3_SequentialInvocations ==
    /\ Cardinality(inFlight) <= 1
    /\ \A k \in 1..Len(invocations) : invocations[k] = k
    /\ \A i \in inFlight : Len(toolOutcomes) = i - 1 /\ Len(toolResultParts) = i - 1
    /\ Len(invocations) = Len(toolOutcomes) + Cardinality(inFlight)

\* C3 witness: the second call of a round is in flight after the first one
\* failed.
C3_Witness ==
    /\ pc = "invoke"
    /\ inFlight = {2}
    /\ Len(toolCallParts) >= 2
    /\ Len(toolOutcomes) = 1
    /\ toolOutcomes[1].outcome.threw

\* C4: the synthetic user turn of a round with calls c1..cn carries exactly
\* n tool-result parts, the i-th tagged with the call id of ci, whichever
\* invocations failed.
C4_ResultsMatchCalls ==
    userToolResultMessage.some =>
        /\ userToolResultMessage.val.role = "user"
        /\ Len(userToolResultMessage.val.content) = Len(toolCallParts)
        /\ \A i \in 1..Len(toolCallParts) :
              i <= Len(userToolResultMessage.val.content)
                 => userToolResultMessage.val.content[i].callId = toolCallParts[i].callId

\* C4 witness: a user turn was built for two calls of different ids, of
\* which the first failed and the second succeeded.
C4_Witness ==
    /\ userToolResultMessage.some
    /\ Len(toolCallParts) = 2
    /\ toolCallParts[1].callId # toolCallParts[2].callId
    /\ toolOutcomes[1].outcome.threw
    /\ ~toolOutcomes[2].outcome.threw

\* the result part is one text part holding an error message
IsErrorResult(part) ==
    /\ Len(part.content) = 1
    /\ part.content[1].kind = "text"
    /\ Len(part.content[1].value) = 2
    /\ part.content[1].value[1] = "Error invoking tool: "

\* C5: a failed tool invocation (the tool throws, or its name is not in the
\* registry) is represented by exactly one text part with an error message,
\* tagged with the id of its call; the other calls of the round are still
\* invoked and the follow-up request is still made; the failure never
\* becomes an error response.
C5_ToolFailureIsContained ==
    /\ thrown # "tool"
    /\ \A k \in 1..Len(toolOutcomes) :
          toolOutcomes[k].outcome.threw =>
              /\ Len(toolResultParts) >= k
              /\ toolResultParts[k].callId = toolCallParts[toolOutcomes[k].call].callId
              /\ IsErrorResult(toolResultParts[k])
              /\ toolResultParts[k].content[1].value[2] =
                    (IF toolOutcomes[k].outcome.isError
                     THEN toolOutcomes[k].outcome.message ELSE "Unknown error")
    /\ (pc \in {"drainFollowUp", "respond", "done"} /\ toolOutcomes # <<>>) =>
          /\ Len(invocations) = Len(toolCallParts)
          /\ Len(toolOutcomes) = Len(toolCallParts)
          /\ Len(requestsSent) = 2
    /\ res.status = 500 => thrown \in {"selectModels", "model"}

\* C5 witness: in a round of two calls the first, of a tool the registry
\* does not hold, failed; the second succeeded and the answer was 200.
C5_Witness ==
    /\ pc = "done"
    /\ res.status = 200
    /\ toolCallParts = <<ToolCallPart(2, "y"), ToolCallPart(1, "x")>>
    /\ toolOutcomes[1].outcome.threw
    /\ ~toolOutcomes[2].outcome.threw
    /\ toolResultParts[1] =
          ToolResultPart(2, <<TextPart(<<"Error invoking tool: ", "not found">>)>>)
    /\ toolResultParts[2].content = <<TextPart(<<"r1">>), TextPart(<<"r2">>)>>

\* C6: a request makes at most two model requests, the second only when
\* the first response held tool calls; only tool calls of the first
\* response are ever invoked, so those of the follow-up response are not;
\* no model request follows a failed one.
C6_AtMostOneFollowUp ==
    /\ Len(requestsSent) <= 2
    /\ Len(requestsSent) = 2 => CallsInStreamOrder(chatResponse) # <<>>
    /\ Len(invocations) <= Len(CallsInStreamOrder(chatResponse))
    /\ Len(requestsSent) = 2 => Len(invocations) = Len(CallsInStreamOrder(chatResponse))
    /\ \A k \in 1..Len(requestsSent) :
          requestsSent[k].failed => k = Len(requestsSent) /\ pc = "done"

\* C6 witness: the follow-up response held a tool call, and the request
\* ended with two model requests and the one invocation of the first round.
C6_Witness ==
    /\ pc = "done"
    /\ res.status = 200
    /\ \E i \in 1..Len(followUpResponse) : followUpResponse[i].kind = "toolCall"
    /\ Len(requestsSent) = 2
    /\ Len(invocations) = 1

----------------------------------------------------------------------------
(* Claims about the tools of a request *)

\* C11: for a request whose tools list is empty (an absent list is read as
\* the empty list), prepareToolsForRequest returns undefined, not an empty
\* list, and the options of every model request carry neither tools nor a
\* tool mode, whatever tool_choice the request gives.
C11_NoToolsNoToolFields ==
    Len(requestData.tools) = 0 =>
        /\ prepareToolsForRequest(requestData.tools) = None
        /\ \A k \in 1..Len(requestsSent) :
              /\ requestsSent[k].options.tools = None
              /\ requestsSent[k].options.toolMode = None

\* C11 witness: a request with no tools and tool_choice "required" made a
\* model request.
C11_Witness ==
    /\ Len(requestData.tools) = 0
    /\ requestData.tool_choice = Some(StringChoice("required"))
    /\ Len(requestsSent) >= 1
    /\ requestsSent[1].options.tools = None
    /\ requestsSent[1].options.toolMode = None

----------------------------------------------------------------------------
(* Claims about generateNextActions, checked under SpecSuggest *)

\* C13: generateNextActions returns at most 3 actions for every request,
\* response text and operation type, and the returned list is the first
\* min(3, n) of the n actions its rules pushed, in push order.
C13_AtMostThreeInOrder ==
    gpc = "done" =>
        /\ Len(gActions) <= 3
        /\ Len(gActions) = (IF Len(suggestions) < 3 THEN Len(suggestions) ELSE 3)
        /\ \A i \in 1..Len(gActions) : i <= Len(suggestions) => gActions[i] = suggestions[i]

\* C13 witness: a read of a source file with suggestions enabled pushed
\* three actions and all three were returned, in push order.
C13_Witness ==
    /\ gpc = "done"
    /\ gRequest.suggestNextActions
    /\ gRequest.fileOperation.some
    /\ gRequest.fileOperation.val.type = "read"
    /\ Len(suggestions) = 3
    /\ Len(gActions) = 3
    /\ gActions[1].description = <<"Edit the file based on analysis">>
    /\ gActions[2].description = <<"Find related code and dependencies">>
    /\ gActions[3].description = <<"Open file in editor for manual review">>

----------------------------------------------------------------------------
(* Claims about the file operation of a chat-completion request *)

\* the text of a search that found no match
NoMatchText(query, filePattern) ==
    <<"# Code Search Results", "\n", "Query: ", "<quote>">> \o query \o <<"<quote>", "\n">>
    \o (IF filePattern # <<>> THEN <<"File Pattern: ">> \o filePattern \o <<"\n">> ELSE <<>>)
    \o <<"", "\n", "No matches found.">>

\* C14: for a request with fileOperation {type: "search", query: q} whose
\* search finds no match, the conversation of every model request holds
\* exactly one message equal to the lines `# Code Search Results`,
\* `Query: "q"`, (the `File Pattern:` line when a pattern was given), an
\* empty line and `No matches found.`, and it stands before the user and
\* assistant turns of the request.
C14_SearchSummaryInConversation ==
    (requestData.fileOperation.some /\ requestData.fileOperation.val.query # <<>>) =>
        \A k \in 1..Len(requestsSent) :
            LET sent == requestsSent[k].messages
                text == NoMatchText(requestData.fileOperation.val.query,
                                    requestData.fileOperation.val.filePattern)
                at == {i \in 1..Len(sent) : sent[i].content = text}
            IN  /\ Cardinality(at) = 1
                /\ \A i \in at : \A j \in 1..Len(sent) :
                      sent[j].from = "conversation" => i < j

----------------------------------------------------------------------------
(* Claims about the streaming path *)

\* the chunk events of the first n fragments of a fragment list, built from
\* the last one down
RECURSIVE ChunksOf(_, _)
ChunksOf(fragments, n) ==
    IF n = 0 THEN <<>>
    ELSE ChunksOf(fragments, n - 1)
         \o <<[object |-> "chat.completion.chunk", content |-> fragments[n],
                finish_reason |-> "null"]>>

\* the values of the text parts of a part stream, in stream order
RECURSIVE TextFragments(_)
TextFragments(parts) ==
    IF parts = <<>> THEN <<>>
    ELSE TextFragments(SubSeq(parts, 1, Len(parts) - 1))
         \o (IF parts[Len(parts)].kind = "text" THEN <<parts[Len(parts)].value>> ELSE <<>>)

\* the response is the event stream of the streaming path
OnStreamingPath == res.contentType = "text/event-stream"

\* C15: on the streaming path the events written are one chunk per provider
\* text fragment, in provider order, each with finish_reason null and
\* written before the next fragment is taken; then, once the fragments are
\* exhausted, exactly one final chunk with an empty delta and finish_reason
\* "stop", then `data: [DONE]`; then the response is ended, and an ended
\* response holds exactly these events.
C15_StreamingEventOrder ==
    OnStreamingPath =>
        LET fragments == TextFragments(chatResponse)
            stop == [object |-> "chat.completion.chunk", content |-> <<>>, finish_reason |-> "stop"]
            sentinel == [object |-> "[DONE]", content |-> <<>>, finish_reason |-> ""]
        IN  /\ fragmentsTaken <= Len(fragments)
            /\ ~res.ended => res.events = ChunksOf(fragments, fragmentsTaken)
            /\ res.ended =>
                  /\ fragmentsTaken = Len(fragments)
                  /\ res.events = ChunksOf(fragments, Len(fragments)) \o <<stop, sentinel>>
            /\ (pc = "done" /\ thrown = "none") => res.ended

\* C15 witness: a response of text a, a tool call and text b was streamed
\* to its end as four events.
C15_Witness ==
    /\ pc = "done"
    /\ OnStreamingPath
    /\ res.ended
    /\ chatResponse = <<TextPart(<<"a">>), ToolCallPart(1, "x"), TextPart(<<"b">>)>>
    /\ Len(res.events) = 4
    /\ res.events[1].content = <<"a">>
    /\ res.events[2].content = <<"b">>
    /\ res.events[3].finish_reason = "stop"
    /\ res.events[4].object = "[DONE]"

\* C16: the streaming path is taken only when the caller's stream flag is
\* true and the request's tools list is empty; on that path exactly one
\* model request is made and no tool is invoked, whatever the response of
\* the provider contains.
C16_StreamingWithoutTools ==
    (OnStreamingPath \/ pc = "stream") =>
        /\ requestData.stream
        /\ Len(requestData.tools) = 0
        /\ Len(requestsSent) = 1
        /\ invocations = <<>>
        /\ toolOutcomes = <<>>
        /\ toolResultParts = <<>>
        /\ ~assistantToolCallMessage.some

\* C16 witness: a streamed response that held a tool call ended with one
\* model request and no invocation.
C16_Witness ==
    /\ pc = "done"
    /\ OnStreamingPath
    /\ res.ended
    /\ \E i \in 1..Len(chatResponse) : chatResponse[i].kind = "toolCall"
    /\ Len(requestsSent) = 1
    /\ invocations = <<>>

----------------------------------------------------------------------------
(* Claims about model selection *)

\* C17: when no offered model matches the family the request names, or the
\* configured default when the request names none, the chat-completion
\* endpoint answers 503 with error type and code `model_not_available` and
\* sends no model request.
C17_ModelNotAvailable ==
    LET wanted == IF requestData.model # "" THEN requestData.model ELSE "gpt-5-mini"
    IN  (pc \notin {"parked", "start"} /\ thrown # "selectModels" /\ wanted \notin families) =>
            /\ pc = "done"
            /\ res.status = 503
            /\ res.contentType = "application/json"
            /\ res.errorType = "model_not_available"
            /\ res.errorCode = "model_not_available"
            /\ res.ended
            /\ requestsSent = <<>>
            /\ invocations = <<>>

\* C17 witness: a request naming a family that is not offered, while the
\* configured default is offered, was answered 503.
C17_Witness ==
    /\ pc = "done"
    /\ requestData.model = "gpt-9"
    /\ "gpt-5-mini" \in families
    /\ res.status = 503
    /\ res.errorCode = "model_not_available"
    /\ requestsSent = <<>>

----------------------------------------------------------------------------
(* Claims about the server of the extension, checked under SpecServer *)

\* a start, stop or restart command runs in this step
CommandStep(name) == commands' = commands + 1 /\ lastCommand' = name

\* a start command while a server is held: nothing but the warning
StartWhileHeld ==
    (CommandStep("start") /\ server # 0) =>
        /\ server' = server
        /\ instances' = instances
        /\ statusBar' = statusBar
        /\ notices' = Append(notices, "already running")

\* a stop command while no server is held: nothing
StopWhileStopped ==
    (CommandStep("stop") /\ server = 0) =>
        /\ server' = 0
        /\ instances' = instances
        /\ statusBar' = statusBar
        /\ notices' = notices

\* an instance is created one at a time, becomes the held one, and only
\* when no server was held or the restart command has just released it
CreatedOnlyWhenFree ==
    Len(instances') > Len(instances) =>
        /\ Len(instances') = Len(instances) + 1
        /\ server' = Len(instances')
        /\ \/ server = 0
           \/ CommandStep("restart") /\ instances'[server].state = "stopped"

\* the handle is undefined or names one created instance that was neither
\* stopped nor failed
AtMostOneHeld ==
    /\ server \in 0..Len(instances)
    /\ server # 0 => instances[server].state \in {"starting", "listening"}
    /\ Len(instances) <= commands

\* C18: start and stop are idempotent. A start command while a server is
\* held creates no instance, leaves the held handle and every instance
\* unchanged and shows the warning; a stop command while no server is held
\* changes nothing; and after any sequence of start, stop and restart
\* commands the module holds at most one instance: the handle is undefined
\* or names one created instance that was neither stopped nor failed, and
\* an instance is created only by a command that sees no held server (a
\* restart releases the held one first).
C18_StartStopIdempotent ==
    /\ []AtMostOneHeld
    /\ [][StartWhileHeld /\ StopWhileStopped /\ CreatedOnlyWhenFree]_vars

\* C18 witness: a second start command ran while the first instance was
\* listening: one instance exists, it is held, and the warning was shown.
C18_Witness ==
    /\ commands = 2
    /\ lastCommand = "start"
    /\ server = 1
    /\ Len(instances) = 1
    /\ instances[1].state = "listening"
    /\ notices = <<"started", "already running">>

----------------------------------------------------------------------------
(* Claims about requests in flight together, checked under SpecHandlers *)

\* the result parts of the tool calls of a part stream, each call with its
\* own outcome, built from the last call down
RECURSIVE ResultsAlone(_, _, _)
ResultsAlone(calls, outcomes, n) ==
    IF n = 0 THEN <<>>
    ELSE ResultsAlone(calls, outcomes, n - 1)
         \o <<invokeToolSafely(calls[n], outcomes[n]).part>>

\* the messages request r sends when it is handled alone
PreparedAlone(r) == prepareChatMessages(PreparationOptions(hRequests[r], None))

\* the follow-up messages request r sends when it is handled alone
FollowUpAlone(r) ==
    LET calls == CallsInStreamOrder(hAnswers[r].first)
    IN  PreparedAlone(r)
        \o <<Assistant(calls, "toolCalls"),
             User(ResultsAlone(calls, hAnswers[r].outcomes, Len(calls)), "toolResults")>>

\* the response request r gets when it is handled alone
ResponseAlone(r) ==
    IF hRequests[r].stream /\ hRequests[r].tools = <<>>
    THEN [NoResponse EXCEPT
            !.status = 200, !.contentType = "text/event-stream",
            !.events = ChunksOf(TextFragments(hAnswers[r].first),
                                Len(TextFragments(hAnswers[r].first)))
                       \o <<FinalChunk, DoneEvent>>,
            !.ended = TRUE]
    ELSE IF CallsInStreamOrder(hAnswers[r].first) = <<>>
         THEN CompletionResponse(TextInStreamOrder(hAnswers[r].first))
         ELSE CompletionResponse(TextInStreamOrder(hAnswers[r].followUp))

\* request r is in its tool round and has collected what it collects alone
CollectsOwnResults(r) ==
    handlers[r].pc = "invoke" =>
        hResults[r] = ResultsAlone(CallsInStreamOrder(hAnswers[r].first),
                                   hAnswers[r].outcomes, handlers[r].taken)

\* C19: two chat-completion requests in flight together share no
\* request-scoped state: whatever the interleaving of their awaits, the
\* messages each one sends to the model, the tool results it collects and
\* the response it writes are those of the same request handled alone with
\* the same answers of the model and the tools
C19_RequestsShareNoState ==
    \A r \in Handlers :
        /\ handlers[r].prepared # <<>> => handlers[r].prepared = PreparedAlone(r)
        /\ Len(handlers[r].requestsSent) >= 1 => handlers[r].requestsSent[1] = PreparedAlone(r)
        /\ CollectsOwnResults(r)
        /\ Len(handlers[r].requestsSent) >= 2 => handlers[r].requestsSent[2] = FollowUpAlone(r)
        /\ Len(handlers[r].requestsSent) <= 2
        /\ handlers[r].pc = "done" => handlers[r].res = ResponseAlone(r)

\* two requests with different bodies are in their tool rounds at the same
\* time, each between its first and its second tool invocation
C19_Witness ==
    /\ hRequests[1] # hRequests[2]
    /\ \A r \in Handlers :
         /\ handlers[r].pc = "invoke"
         /\ handlers[r].taken = 1
         /\ Len(handlers[r].toolCallParts) = 2
         /\ Len(hResults[r]) = 1

----------------------------------------------------------------------------
(* Claims about the responses of the routes, checked under SpecRoutes *)

\* C20: every response with a status outside 200..299, on any route and on
\* any failure path, has a JSON body whose `error` key holds an object with
\* message, type and code
C20_ErrorPayloadShape ==
    (rpc = "done" /\ (rRes.status < 200 \/ rRes.status > 299)) =>
        /\ "error" \in rRes.keys
        /\ rRes.error.kind = "object"
        /\ rRes.error.keys = {"message", "type", "code"}

----------------------------------------------------------------------------
(* Claims about the direct tool-invoke endpoint, checked under SpecInvoke *)

\* C21: on the tool-invoke endpoint a request without a tool name is
\* answered 400 missing_parameter and invokes nothing; a name the registry
\* does not hold is answered 500 tool_invocation_error and invokes nothing;
\* a tool that throws is answered 500 tool_invocation_error; otherwise the
\* answer is 200 with the tool name, success true and, as result, the text
\* parts of the tool's output concatenated in order, other parts left out
C21_ToolInvokeEndpoint ==
    ipc = "done" =>
        LET toolName == IF iRequest.tool_name = "" THEN iRequest.name ELSE iRequest.tool_name
        IN  /\ toolName = "" =>
                /\ iRes.status = 400
                /\ iRes.errorCode = "missing_parameter"
                /\ iInvoked = <<>>
            /\ (toolName # "" /\ toolName \notin RegisteredTools) =>
                /\ iRes.status = 500
                /\ iRes.errorCode = "tool_invocation_error"
                /\ iInvoked = <<>>
            /\ (toolName \in RegisteredTools /\ iOutcome.threw) =>
                /\ iRes.status = 500
                /\ iRes.errorCode = "tool_invocation_error"
            /\ (toolName \in RegisteredTools /\ ~iOutcome.threw) =>
                /\ iRes.status = 200
                /\ iRes.tool_name = toolName
                /\ iRes.success
                /\ iRes.result = TextInStreamOrder(iOutcome.content)
                /\ iInvoked = <<toolName>>

\* a registered tool answered with a text part, another part and a second
\* text part, and the endpoint answered 200
C21_Witness ==
    /\ ipc = "done"
    /\ iRes.status = 200
    /\ iOutcome.content = <<TextPart(<<"r1">>), DataPart, TextPart(<<"r2">>)>>
    /\ iRes.result = <<"r1", "r2">>

----------------------------------------------------------------------------
(* Claims about the requested files, checked under SpecMsg *)

\* the messages of the requested files in the assembled conversation
FilesMessages == SelectSeq(chatMessages, LAMBDA m : m.from = "files")

\* the positions of the section headings of a requested-files text, in order
RECURSIVE HeadingsUpTo(_, _)
HeadingsUpTo(text, n) ==
    IF n = 0 THEN <<>>
    ELSE HeadingsUpTo(text, n - 1) \o (IF text[n] = "## " THEN <<n>> ELSE <<>>)

\* the positions of all section headings of a text, in order
Headings(text) == SelectSeq([i \in 1..Len(text) |-> i], LAMBDA i : text[i] = "## ")

\* the k-th section of a requested-files text: from its heading to the
\* token before the next heading, or to the end of the text
SectionAt(text, k) ==
    LET heads == Headings(text)
        last == IF k < Len(heads) THEN heads[k + 1] - 1 ELSE Len(text)
    IN  SubSeq(text, heads[k], last)

\* a section without the line breaks that separate it from the next one
RECURSIVE Trimmed(_)
Trimmed(section) ==
    IF section # <<>> /\ section[Len(section)] \in {"\n", ""}
    THEN Trimmed(SubSeq(section, 1, Len(section) - 1))
    ELSE section

\* the section of a path is the one a request for that path alone gets
SectionAlone(path) ==
    LET alone == prepareChatMessages([options EXCEPT !.fileReads = Some(<<path>>)])
        files == SelectSeq(alone, LAMBDA m : m.from = "files")
    IN  Trimmed(SectionAt(files[1].content, 1))

\* C22: with a workspace folder open and paths p1..pn requested, the
\* requested-files message has exactly one section per path, in request
\* order; the section of a path whose read fails holds the inline note
\* `Error reading file`, the sections of the other paths are what they are
\* without the failing path, and the conversation is assembled to its end
C22_OneSectionPerPath ==
    (/\ mpc = "done"
     /\ options.fileReads.some
     /\ options.fileReads.val # <<>>
     /\ options.workspaceFolders) =>
        LET paths == options.fileReads.val
            text == FilesMessages[1].content
            heads == HeadingsUpTo(text, Len(text))
        IN  /\ Len(FilesMessages) = 1
            /\ Len(heads) = Len(paths)
            /\ \A k \in 1..Len(paths) :
                 LET section == SectionAt(text, k)
                     noted == \E i \in 1..Len(section) : section[i] = "Error reading file: "
                 IN  /\ section[2] = paths[k]
                     /\ noted <=> paths[k] \notin ReadableFiles
                     /\ Trimmed(section) = SectionAlone(paths[k])
            /\ Len(SelectSeq(chatMessages, LAMBDA m : m.from = "conversation"))
                 = Len(SelectSeq(options.messages,
                                 LAMBDA m : m.role \in {"user", "assistant"}))

\* three paths were requested, the second of them unreadable, and the
\* conversation is assembled
C22_Witness ==
    /\ mpc = "done"
    /\ options.workspaceFolders
    /\ options.fileReads = Some(<<"f3", "f2", "f1">>)
    /\ Len(FilesMessages) = 1

----------------------------------------------------------------------------
(* Claims about the file operation of a chat-completion request *)

\* the file operation of the request fails: a missing filePath or query, a
\* file that cannot be read, an edit without replacement fields
OperationFails ==
    /\ requestData.fileOperation.some
    /\ LET op == requestData.fileOperation.val
       IN  \/ op.type \in {"read", "edit", "open"} /\ op.filePath = ""
           \/ op.type = "search" /\ op.query = <<>>
           \/ op.type \in {"read", "edit"} /\ op.filePath \notin ReadableFiles
           \/ op.type = "edit" /\ ~op.replacements

\* C23: a failure of the fileOperation of a chat-completion request never
\* aborts the request: the failure becomes a `# File Operation Error`
\* summary that names the operation type once a model is selected, the
\* messages are assembled and the model request is sent, and the failure
\* does not change the status: the response is 200 unless no model is
\* available or something else failed
C23_FileOperationFailureContained ==
    OperationFails =>
        /\ thrown # "fileOperation"
        /\ (pc \notin {"start", "fileOperation"} /\ modelAvailable
                                                 /\ thrown # "selectModels") =>
              /\ fileOperationResult.some
              /\ SubSeq(fileOperationResult.val, 1, 4)
                    = <<"# File Operation Error", "\n", "Type: ",
                        requestData.fileOperation.val.type>>
        /\ (pc = "done" /\ modelAvailable /\ thrown = "none") =>
              /\ prepared # <<>>
              /\ Len(requestsSent) >= 1
              /\ requestsSent[1].messages = prepared
              /\ res.status = 200
        /\ res.status \notin {0, 200} => (~modelAvailable \/ thrown # "none")

\* a request whose read operation names an unreadable file was answered 200
C23_Witness ==
    /\ pc = "done"
    /\ requestData.fileOperation.some
    /\ requestData.fileOperation.val.type = "read"
    /\ requestData.fileOperation.val.filePath = "f2"
    /\ res.status = 200
    /\ res.ended

----------------------------------------------------------------------------
(* Claims about searchWorkspaceCode, checked under SpecSearch *)

\* the number of match lines of a section of a search result
MatchLines(section) == Len(SelectSeq(section, LAMBDA token : token = "Line "))

\* a file has a line that contains the query, case-insensitively
ContainsQuery(file, query) ==
    \E n \in 1..Len(file.lines) :
        Includes([i \in 1..Len(file.lines[n]) |-> toLowerCase(file.lines[n][i])],
                 [i \in 1..Len(query) |-> toLowerCase(query[i])])

\* the search ran to its end: it had a query and findFiles returned
Searched == spc = "done" /\ sArgs.query # <<>> /\ ~sWorkspace.rejects

\* C24: a code search that runs to its end lists at most maxResults files
\* and at most 10 match lines per file; every file it lists can be read and
\* has a line that contains the query case-insensitively; and when it lists
\* no file its result ends with `No matches found.`
C24_SearchIsBounded ==
    Searched =>
        LET text == sResult.val
            heads == Headings(text)
        IN  /\ sResult.some
            /\ Len(heads) <= sArgs.maxResults
            /\ \A k \in 1..Len(heads) :
                  /\ MatchLines(SectionAt(text, k)) <= MaxMatchesPerFile
                  /\ MatchLines(SectionAt(text, k)) >= 1
                  /\ \E i \in 1..Len(sWorkspace.files) :
                        /\ sWorkspace.files[i].path = text[heads[k] + 1]
                        /\ sWorkspace.files[i].readable
                        /\ ContainsQuery(sWorkspace.files[i], sArgs.query)
            /\ heads = <<>> => text[Len(text)] = "No matches found."

\* a search with maxResults 1 skips an unreadable file, lists a file with
\* more matches than are listed, and stops before a further matching file
C24_Witness ==
    /\ Searched
    /\ sArgs.maxResults = 1
    /\ Len(sWorkspace.files) = 3
    /\ ~sWorkspace.files[1].readable
    /\ sWorkspace.files[2].path = "big.ts"
    /\ sWorkspace.files[3].path = "m.ts"
    /\ ContainsQuery(sWorkspace.files[3], sArgs.query)
    /\ Len(Headings(sResult.val)) = 1
    /\ MatchLines(SectionAt(sResult.val, 1)) = MaxMatchesPerFile

----------------------------------------------------------------------------
(* Claims about prepareToolsForRequest, checked under SpecTools *)

\* a descriptor that resolves: a function tool, or a name the registry holds
Resolvable(tool) ==
    \/ tool.shape = "function"
    \/ tool.shape = "string" /\ tool.name \in RegisteredTools
    \/ tool.shape = "object" /\ tool.name # "" /\ tool.name \in RegisteredTools

\* a name reference the registry does not hold
UnresolvedName(tool) ==
    /\ tool.shape = "string" \/ (tool.shape = "object" /\ tool.name # "")
    /\ tool.name \notin RegisteredTools

\* the description a resolvable descriptor comes with: its own for a
\* function tool, the registry's for a name
GivenDescription(tool) ==
    IF tool.shape = "function" THEN tool.description ELSE RegisteredDescription(tool.name)

\* C25: prepareToolsForRequest emits one tool per resolvable descriptor, in
\* input order, under the descriptor's name: a function tool whether or not
\* the registry holds its name, a name reference only if the registry holds
\* exactly that name; it warns once about every name the registry does not
\* hold; and a tool that comes without description gets `Tool: <name>`
C25_OneToolPerResolvableReference ==
    tpc = "done" =>
        LET resolvable == SelectSeq(tTools, Resolvable)
            emitted == IF tToolsForRequest.some THEN tToolsForRequest.val ELSE <<>>
            unresolved == SelectSeq(tTools, UnresolvedName)
        IN  /\ Len(emitted) = Len(resolvable)
            /\ tToolsForRequest.some <=> resolvable # <<>>
            /\ \A i \in 1..Len(resolvable) :
                  /\ emitted[i].name = resolvable[i].name
                  /\ emitted[i].description =
                       (IF GivenDescription(resolvable[i]) = <<>>
                        THEN <<"Tool: ", resolvable[i].name>>
                        ELSE GivenDescription(resolvable[i]))
            /\ tWarned = [i \in 1..Len(unresolved) |-> unresolved[i].name]

\* a name in another case than the registered one was skipped with a
\* warning, and the registered name after it was emitted with the default
\* description
C25_Witness ==
    /\ tpc = "done"
    /\ tTools = <<NamedTool("X"), ObjectTool("x")>>
    /\ tToolsForRequest = Some(<<[name |-> "x", description |-> <<"Tool: ", "x">>]>>)
    /\ tWarned = <<"X">>

----------------------------------------------------------------------------
(* Claims about the requests of suggested actions, checked under SpecSuggest *)

\* the file operation of a suggested request as handleChatCompletions runs
\* it when the request is replayed
Replayed(fileOperation) ==
    TryFileOperation(Operation(fileOperation.type,
                               IF fileOperation.filePath = <<>> THEN "" ELSE "f1",
                               fileOperation.query, <<>>, FALSE))

\* the messages of the file-operation errors for a missing parameter
MissingParameterErrors ==
    {<<"filePath is required for read operation">>,
     <<"filePath is required for open operation">>,
     <<"query is required for search operation">>}

\* C26: every request of a returned action has a non-empty message list,
\* and its fileOperation, when it has one, carries a non-empty filePath for
\* read and open and a non-empty query for search, so that replaying it
\* does not end in a file-operation error for a missing parameter
C26_SuggestedRequestsReplayable ==
    gpc = "done" =>
        \A i \in 1..Len(gActions) :
            LET request == gActions[i].request
            IN  /\ request.messages # <<>>
                /\ request.fileOperation.some =>
                      LET op == request.fileOperation.val
                      IN  /\ op.type \in {"read", "open"} => op.filePath # <<>>
                          /\ op.type = "search" => op.query # <<>>
                          /\ ~(/\ Replayed(op).threw
                               /\ Replayed(op).text \in MissingParameterErrors)

----------------------------------------------------------------------------
(* Claims about the follow-up request of a tool round, checked under Spec *)

\* C27: the follow-up request of a tool round carries the conversation of
\* the initial request, then the assistant turn with the tool calls, then
\* the user turn with the tool results, and nothing else; its options are
\* those of the initial request; and the assembled conversation is after
\* the round what it was when the initial request was sent
C27_FollowUpExtendsConversation ==
    Len(requestsSent) = 2 =>
        LET initial == requestsSent[1]
            followUp == requestsSent[2]
        IN  /\ Len(followUp.messages) = Len(initial.messages) + 2
            /\ SubSeq(followUp.messages, 1, Len(initial.messages)) = initial.messages
            /\ followUp.messages[Len(initial.messages) + 1] = assistantToolCallMessage.val
            /\ followUp.messages[Len(initial.messages) + 1].role = "assistant"
            /\ followUp.messages[Len(initial.messages) + 2] = userToolResultMessage.val
            /\ followUp.messages[Len(initial.messages) + 2].role = "user"
            /\ followUp.options = initial.options
            /\ prepared = initial.messages

\* the follow-up request of a round with two calls was sent with tools in
\* its options, and the request was answered
C27_Witness ==
    /\ pc = "done"
    /\ Len(requestsSent) = 2
    /\ ~requestsSent[2].failed
    /\ requestsSent[2].options.tools.some
    /\ Len(requestsSent[1].messages) >= 1
    /\ Len(toolCallParts) = 2
    /\ res.status = 200

----------------------------------------------------------------------------
(* Claims about a first response without tool calls, checked under Spec *)

\* C28: on the non-streaming path, when the first response holds no
\* tool-call part, the text returned is the concatenation of its text parts
\* in stream order, no tool is invoked, no tool result is collected and no
\* model request follows the first
C28_NoCallsNoRound ==
    (~stream /\ CallsInStreamOrder(chatResponse) = <<>>) =>
        /\ invocations = <<>>
        /\ toolResultParts = <<>>
        /\ ~assistantToolCallMessage.some
        /\ ~userToolResultMessage.some
        /\ Len(requestsSent) <= 1
        /\ pc = "respond" => fullText = TextInStreamOrder(chatResponse)
        /\ (pc = "done" /\ res.status = 200) =>
              /\ res.content = TextInStreamOrder(chatResponse)
              /\ Len(requestsSent) = 1

\* a request with tools got a first response of two text parts and no tool
\* call, and was answered with their concatenation
C28_Witness ==
    /\ pc = "done"
    /\ ~stream
    /\ Len(requestData.tools) > 0
    /\ Len(chatResponse) = 2
    /\ \A i \in 1..2 : chatResponse[i].kind = "text"
    /\ res.status = 200
    /\ res.content = chatResponse[1].value \o chatResponse[2].value
    /\ Len(requestsSent) = 1

----------------------------------------------------------------------------
(* Claims about the suggestions without a file operation and after a read,  *)
(* checked under SpecSuggest                                                *)

\* the positions of the words of a response that name a file with one of
\* the known extensions
FileWordsAt(response) == {i \in 1..Len(response) : IsFileWord(response[i])}

\* the response holds "search" or "find", in any case
SearchWordIn(response) ==
    \E i \in 1..Len(response) : response[i] \in {"search", "find", "Search", "Find"}

\* C29: with suggestions enabled and no file operation, the last returned
\* action is the follow-up question, whose request replays the messages of
\* the request, then the response as assistant turn, then the continuation
\* prompt; before it come, in this order and only then, a read suggestion
\* for the first file name of the response when it holds one, and the
\* search suggestion when it holds "search" or "find"
C29_FollowUpQuestionLast ==
    (gpc = "done" /\ gRequest.suggestNextActions /\ ~gRequest.fileOperation.some) =>
        LET n == Len(gActions)
            files == FileWordsAt(gResponse)
            reads == IF files # {} THEN 1 ELSE 0
            searches == IF SearchWordIn(gResponse) THEN 1 ELSE 0
        IN  /\ n = reads + searches + 1
            /\ gActions[n].description = <<"Ask a follow-up question">>
            /\ ~gActions[n].request.fileOperation.some
            /\ gActions[n].request.messages =
                  gRequest.messages
                  \o <<[role |-> "assistant", content |-> gResponse],
                       [role |-> "user", content |-> <<"Tell me more about this">>]>>
            /\ files # {} =>
                  LET first == CHOOSE i \in files : \A j \in files : i <= j
                  IN  gActions[1].request.fileOperation
                        = Some(FileOp("read", <<gResponse[first]>>, <<>>))
            /\ SearchWordIn(gResponse) =>
                  gActions[n - 1].request.fileOperation
                    = Some(FileOp("search", <<>>, <<"implementation">>))

\* a response with two file names and no search word got the read of the
\* first one and the follow-up question
C29_Witness ==
    /\ gpc = "done"
    /\ gRequest.suggestNextActions
    /\ ~gRequest.fileOperation.some
    /\ gResponse = <<"b.md", "src/a.ts">>
    /\ Len(gActions) = 2
    /\ gActions[1].request.fileOperation.val.filePath = <<"b.md">>
    /\ Len(gActions[2].request.messages) = Len(gRequest.messages) + 2

\* C30: after a read with a file path and suggestions enabled, the actions
\* are the edit-intent follow-up that reads the same path, then the search
\* for the basename of the path when that basename is not empty, then the
\* opening of the same path; without a file path there is no action
C30_ReadFollowUps ==
    (/\ gpc = "done"
     /\ gRequest.suggestNextActions
     /\ gRequest.fileOperation.some
     /\ gRequest.fileOperation.val.type = "read") =>
        LET filePath == gRequest.fileOperation.val.filePath
            given == filePath.some /\ PathText(filePath.val) # <<>>
        IN  /\ ~given => gActions = <<>>
            /\ given =>
                  LET searched == IF filePath.val.stem # <<>> THEN 1 ELSE 0
                      n == Len(gActions)
                  IN  /\ n = 2 + searched
                      /\ gActions[1].description = <<"Edit the file based on analysis">>
                      /\ gActions[1].request.fileOperation
                            = Some(FileOp("read", PathText(filePath.val), <<>>))
                      /\ searched = 1 =>
                            gActions[2].request.fileOperation
                              = Some(FileOp("search", <<>>, filePath.val.stem))
                      /\ gActions[n].description = <<"Open file in editor for manual review">>
                      /\ gActions[n].request.fileOperation
                            = Some(FileOp("open", PathText(filePath.val), <<>>))

\* the read of a dotfile, whose basename is empty, got the edit-intent
\* follow-up and the opening and no search
C30_Witness ==
    /\ gpc = "done"
    /\ gRequest.suggestNextActions
    /\ gRequest.fileOperation.some
    /\ gRequest.fileOperation.val.type = "read"
    /\ gRequest.fileOperation.val.filePath = Some(Path(<<>>, <<>>, <<".env">>))
    /\ Len(gActions) = 2
    /\ gActions[2].request.fileOperation.val.type = "open"

----------------------------------------------------------------------------
(* Claims about the workflow keys of a response, checked under SpecSuggest *)

\* the path a path text stands for
PathOf(text) == CHOOSE path \in FilePaths : PathText(path) = text

\* the request of a suggested action as a client sends it back
ReplayRequest(request) ==
    [messages |-> request.messages,
     suggestNextActions |-> request.suggestNextActions,
     fileOperation |->
        IF request.fileOperation.some
        THEN Some([type |-> request.fileOperation.val.type,
                   filePath |-> IF request.fileOperation.val.filePath = <<>> THEN None
                                ELSE Some(PathOf(request.fileOperation.val.filePath)),
                   query |-> request.fileOperation.val.query])
        ELSE None]

\* the workflow keys of the response to a replayed request, for a response
\* text
ReplayKeys(request, response) ==
    LET replayed == ReplayRequest(request)
    IN  WorkflowKeys(replayed,
                     generateNextActions(replayed, response, OperationType(replayed),
                                         OperationPath(replayed)),
                     OperationType(replayed), OperationPath(replayed))

\* the actions of a list that open a file in the editor
OpenFollowUps(actions) ==
    {i \in 1..Len(actions) :
        /\ actions[i].request.fileOperation.some
        /\ actions[i].request.fileOperation.val.type = "open"}

\* C31: every returned action that opens a file in the editor has a request
\* with suggestNextActions false, and the response to that request, replayed,
\* carries no suggested_actions whatever the model answers: a client that
\* follows suggestions stops after it
C31_OpenFollowUpEndsWorkflow ==
    gpc \in {"done", "written"} =>
        \A i \in OpenFollowUps(gActions) :
            /\ ~gActions[i].request.suggestNextActions
            /\ \A response \in BSeq(ResponseWords, MaxWords) :
                  ~ReplayKeys(gActions[i].request, response).suggested_actions.some

\* the edit of a source file got three actions of which the last opens the
\* file, while the two before it ask for further suggestions
C31_Witness ==
    /\ gpc = "written"
    /\ gRequest.fileOperation.some
    /\ gRequest.fileOperation.val.type = "edit"
    /\ gBody.suggested_actions.some
    /\ OpenFollowUps(gActions) = {3}
    /\ gActions[1].request.suggestNextActions
    /\ gActions[2].request.suggestNextActions

----------------------------------------------------------------------------
(* Claims about the callbacks of server instances, checked under SpecServer *)

\* a callback of instance i runs
CallbackOf(i) ==
    ListeningCallback(i) \/ ErrorCallback(i) \/ ListenDropped(i) \/ CloseCallback(i)

\* C32: the status bar shows running only while the module holds a server,
\* and a callback of an instance that is not the held one changes neither
\* the held server nor what the status bar shows
C32_StaleCallbacksChangeNothing ==
    /\ [](statusBar = "running" => server # 0)
    /\ [][\A i \in 1..Len(instances) :
            (CallbackOf(i) /\ i # server) => (server' = server /\ statusBar' = statusBar)]_vars

----------------------------------------------------------------------------
(* Claims about editFile, checked under SpecEdit *)

\* `after` is `before` with the first occurrence of oldString replaced: what
\* precedes and what follows that occurrence is kept
FirstOccurrenceReplaced(before, after, oldString) ==
    \E p \in 1..(Len(before) + 1) :
        /\ p + Len(oldString) - 1 <= Len(before)
        /\ SubSeq(before, p, p + Len(oldString) - 1) = oldString
        /\ \A q \in 1..(p - 1) : SubSeq(before, q, q + Len(oldString) - 1) # oldString
        /\ Len(after) >= Len(before) - Len(oldString)
        /\ SubSeq(after, 1, p - 1) = SubSeq(before, 1, p - 1)
        /\ SubSeq(after, Len(after) - (Len(before) - p - Len(oldString)), Len(after))
             = SubSeq(before, p + Len(oldString), Len(before))

\* oldString occurs in text
Occurs(text, oldString) ==
    \E p \in 1..(Len(text) + 1) :
        /\ p + Len(oldString) - 1 <= Len(text)
        /\ SubSeq(text, p, p + Len(oldString) - 1) = oldString

\* an iteration of the loop of call e handles the next replacement of the
\* list on the text the earlier ones left: found, its first occurrence is
\* replaced and counted; not found, the text is kept and an error is pushed
LoopStepOf(e) ==
    editors'[e].done # editors[e].done =>
        LET r == editors[e].replacements[editors[e].done + 1]
            before == editors[e].textContent
            after == editors'[e].textContent
        IN  /\ editors'[e].done = editors[e].done + 1
            /\ IF Occurs(before, r.oldString)
               THEN /\ FirstOccurrenceReplaced(before, after, r.oldString)
                    /\ editors'[e].replacementsMade = editors[e].replacementsMade + 1
                    /\ editors'[e].errors = editors[e].errors
               ELSE /\ after = before
                    /\ editors'[e].replacementsMade = editors[e].replacementsMade
                    /\ Len(editors'[e].errors) = Len(editors[e].errors) + 1

\* what a call that returned reports and wrote
ReturnedOf(e) ==
    editors[e].pc = "returned" =>
        LET result == editors[e].result
        IN  /\ result.replacementsMade + Len(result.errors) = Len(editors[e].replacements)
            /\ result.success <=> result.replacementsMade > 0
            /\ editors[e].writes = (IF result.replacementsMade > 0 THEN 1 ELSE 0)
            /\ (result.replacementsMade = 0 /\ editors[3 - e].pc = "absent") => eFile = eInitial

\* C34: editFile goes through the replacements in list order, each on the
\* text as the earlier ones left it and on the first occurrence of its old
\* string; replacementsMade plus the number of errors is the number of
\* replacements; success holds iff replacementsMade > 0; the file is
\* written once when replacementsMade > 0 and not at all when it is 0
C34_EditFileContract ==
    /\ [](\A e \in Editors : editors # <<>> => ReturnedOf(e))
    /\ [][\A e \in Editors : editors # <<>> => LoopStepOf(e)]_vars

\* a lone call whose second replacement found only what the first one
\* brought in wrote the file once
C34_Witness ==
    /\ editors # <<>>
    /\ editors[2].pc = "absent"
    /\ editors[1].pc = "returned"
    /\ editors[1].replacements = <<Replacement(<<"a">>, <<"x">>), Replacement(<<"x">>, <<"b", "b">>)>>
    /\ editors[1].result = [success |-> TRUE, replacementsMade |-> 2, errors |-> <<>>]
    /\ editors[1].writes = 1
    /\ eFile = <<"b", "b", "b", "a">>

\* the text a call of editFile leaves when it runs alone on `text`
RECURSIVE Applied(_, _)
Applied(text, replacements) ==
    IF replacements = <<>> THEN text
    ELSE LET r == Head(replacements)
         IN  Applied(IF Occurs(text, r.oldString)
                     THEN ReplaceFirst(text, r.oldString, r.newString) ELSE text,
                     Tail(replacements))

\* C33: when two calls of editFile on the same file have both returned
\* with success, the file holds the replacements of both: its content is
\* what the two calls leave when one runs after the other
C33_NoLostUpdate ==
    (/\ editors # <<>>
     /\ \A e \in Editors : editors[e].pc = "returned" /\ editors[e].result.success) =>
        \/ eFile = Applied(Applied(eInitial, editors[1].replacements), editors[2].replacements)
        \/ eFile = Applied(Applied(eInitial, editors[2].replacements), editors[1].replacements)

----------------------------------------------------------------------------
(* Claims about the end of a chat-completion response, checked under Spec *)

\* C35: when handleChatCompletions is done with a request, by return or by
\* exception, the status line of the response has been written and the
\* response has been ended, also when the provider failed after the
\* streaming head and some chunks were written; nothing runs for the
\* request after that, so a response not ended then is never ended
C35_ResponseAlwaysEnded ==
    pc = "done" =>
        /\ res.status # 0
        /\ res.ended

----------------------------------------------------------------------------
(* Claims about the request options, checked under Spec *)

\* every reference of a non-empty tools list is unresolved
AllUnresolved(tools) == Len(tools) > 0 /\ Len(ResolvedTools(tools)) = 0

\* C36: the options of every model request carry a tool mode only together
\* with tools, and never an empty tools list; when every tool reference of
\* the request is unresolved they carry neither tools nor a tool mode, also
\* when tool_choice is "required", and the request is still served without
\* streaming (with the warning written) because its `tools` list is not
\* empty.
C36_ToolModeOnlyWithTools ==
    /\ \A k \in 1..Len(requestsSent) :
          LET sent == requestsSent[k].options
          IN  /\ sent.toolMode.some => sent.tools.some
              /\ sent.tools.some => Len(sent.tools.val) > 0
              /\ AllUnresolved(requestData.tools) =>
                    (sent.tools = None /\ sent.toolMode = None)
    /\ (pc \notin {"start", "done"} /\ Len(requestData.tools) > 0) =>
          (~stream /\ (requestData.stream => warnings = <<ForcedWarning>>))
    /\ (Len(requestData.tools) > 0 /\ res.status = 200) =>
          res.contentType = "application/json"

\* C36 witness: a streaming request that requires a tool the registry does
\* not hold was answered without streaming, after a model request whose
\* options carry neither tools nor a tool mode.
C36_Witness ==
    /\ pc = "done"
    /\ requestData.stream
    /\ AllUnresolved(requestData.tools)
    /\ requestData.tool_choice = Some(StringChoice("required"))
    /\ Len(requestsSent) = 1
    /\ requestsSent[1].options.tools = None
    /\ requestsSent[1].options.toolMode = None
    /\ warnings = <<ForcedWarning>>
    /\ res.status = 200
    /\ res.contentType = "application/json"

----------------------------------------------------------------------------
(* Claims about the file operation of a request, checked under Spec *)

\* the file operation of the request has been executed: its summary (or
\* the summary of its error) is in fileOperationResult
OperationExecuted == fileOperationResult.some

\* C37: the file operation of a request is executed at most once, only
\* after a model was selected, and before the messages are assembled and the
\* first model request is made; a request answered 503 model_not_available
\* executes no file operation, so the edit it carries is not applied.
C37_FileOperationOnceAfterModel ==
    /\ [](/\ OperationExecuted =>
                (requestData.fileOperation.some /\ modelAvailable /\ pc # "start")
          /\ (requestData.fileOperation.some /\ (prepared # <<>> \/ requestsSent # <<>>)) =>
                OperationExecuted
          /\ res.status = 503 => ~OperationExecuted)
    /\ [][fileOperationResult' # fileOperationResult =>
            /\ pc = "fileOperation"
            /\ ~OperationExecuted
            /\ prepared = <<>>
            /\ requestsSent = <<>>]_vars

\* C37 witness: a request with an edit of f1 was served: the edit ran and a
\* model request was made after it.
C37_Witness ==
    /\ pc = "done"
    /\ requestData.fileOperation.some
    /\ requestData.fileOperation.val.type = "edit"
    /\ requestData.fileOperation.val.filePath = "f1"
    /\ OperationExecuted
    /\ Len(requestsSent) >= 1

----------------------------------------------------------------------------
(* Claims about the workflow keys of a response, checked under SpecSuggest *)

\* C38: a non-streaming response carries `suggested_actions` iff the request
\* set suggestNextActions and at least one action was generated, the key
\* then holds the generated actions, and the response carries
\* `context_summary` exactly when it carries `suggested_actions`; for a
\* request that does not set suggestNextActions, generateNextActions returns
\* the empty list for every response text and operation type.
C38_WorkflowKeysTogether ==
    /\ gpc = "written" =>
          /\ gBody.suggested_actions.some <=>
                (gRequest.suggestNextActions /\ Len(gActions) > 0)
          /\ gBody.suggested_actions.some => gBody.suggested_actions.val = gActions
          /\ gBody.context_summary.some <=> gBody.suggested_actions.some
    /\ (gpc \in {"done", "written"} /\ ~gRequest.suggestNextActions) => gActions = <<>>

\* C38 witness: a request that asked for suggestions got a response without
\* the two keys, because no action was generated for it.
C38_Witness ==
    /\ gpc = "written"
    /\ gRequest.suggestNextActions
    /\ gActions = <<>>
    /\ gBody.suggested_actions = None
    /\ gBody.context_summary = None

----------------------------------------------------------------------------
(* Claims about the route registry, checked under SpecRegistry *)

\* the registrations among the first n whose key is the upper-cased method
\* and the path
RegistrationsOf(method, path, n) ==
    {i \in 1..n : toUpperCase(registered[i].method) = toUpperCase(method)
                     /\ registered[i].path = path}

\* the greatest member of a non-empty set of numbers
Latest(S) == CHOOSE i \in S : \A j \in S : j <= i

\* the keys of the definitions registered so far
RegisteredKeys ==
    {<<toUpperCase(registered[i].method), registered[i].path>> : i \in 1..Len(registered)}

\* C39: dispatch invokes exactly once the handler most recently registered
\* for the key of the request (the upper-cased method and the path of the
\* url without its query string), resolves only after the handler, and
\* returns true when the handler returned; when no handler is registered for
\* the key it invokes no handler, leaves the response untouched and returns
\* false. The registry holds, for each key, the handler of the latest
\* registration of that key, and no other key.
C39_DispatchToLatestHandler ==
    /\ DOMAIN routes = RegisteredKeys
    /\ \A key \in RegisteredKeys :
          routes[key] = registered[Latest(RegistrationsOf(key[1], key[2], Len(registered)))].handler
    /\ kpc \in {"awaiting", "returned"} =>
          LET found == RegistrationsOf(kRequest.method, getRequestPath(kRequest.url).path, kSeen)
          IN  IF found # {}
              THEN /\ kCalls = <<registered[Latest(found)].handler>>
                   /\ kpc = "awaiting" => (kResult = "none" /\ kRes = <<>>)
                   /\ kpc = "returned" =>
                         \/ kResult = "true" /\ kRes = kCalls
                         \/ kResult = "threw" /\ kRes = <<>>
              ELSE /\ kCalls = <<>>
                   /\ kRes = <<>>
                   /\ kpc = "returned"
                   /\ kResult = "false"

====
